---------------------------- MODULE Spec2Model ----------------------------
(***************************************************************************)
(* Model of the manifest repair-and-normalize pipeline (fix_manifest.py)   *)
(* and of the import endpoint (main.py).                                   *)
(*                                                                         *)
(* Bytes and characters are integers (their code points); byte buffers and *)
(* strings are sequences of integers.                                      *)
(***************************************************************************)
EXTENDS Integers, Sequences, FiniteSets, TLC

VARIABLES
    \* escape_newlines_inside_strings: the scanner's locals
    esc_data,      \* the argument `data`
    esc_i,         \* number of bytes already read by the for loop
    in_string,     \* local in_string
    escaped,       \* local escaped
    out,           \* local out (bytearray)
    esc_pc,        \* "idle" | "scan" | "returned"
    \* preclean_bytes
    pre_in,        \* the argument as passed
    pre_data,      \* local `data`, reassigned at each statement
    pre_pc,        \* "idle" | "strip" | "lines" | "slice" | "returned"
    \* extract_text_from_block
    block,         \* the argument
    flat,          \* the value returned (or Raise)
    flat_pc,       \* "idle" | "call" | "returned"
    \* main (fix_manifest.py)
    src_file,      \* bytes of import_manifest.json
    rb,            \* local rb
    rb2,           \* local rb2
    raw,           \* local raw
    chapters_in,   \* local chapters_in
    dst_file,      \* cleaned_import_manifest.json: Unset until written
    main_pc,       \* the statement main is at, "done", "failed" or "idle"
    main_err,      \* the exception that ended the run, "none" otherwise
    parses,        \* calls of json.loads made by this run
    run,           \* 1 for the first run, 2 for the run on its output
    first_out,     \* what the first run wrote, once it has been fed back
    \* import_manifest (main.py): the collections of db
    db_book, db_chapter, db_glossary, db_bibliography, db_manifest,
    imported,      \* the payload of the latest import, Unset before any
    now,           \* the clock datetime.utcnow() reads
    \* transform_chapter called on its own
    tc_ch,         \* the argument ch
    tc_ret,        \* the value returned (or Raise)
    tc_pc,         \* "idle" | "call" | "returned"
    \* normalize_book called on its own
    nb_book,       \* the argument book
    nb_chapters,   \* the argument chapters
    nb_ret,        \* the value returned
    nb_pc          \* "idle" | "call" | "returned"

escVars == <<esc_data, esc_i, in_string, escaped, out, esc_pc>>
preVars == <<pre_in, pre_data, pre_pc>>

flatVars == <<block, flat, flat_pc>>

mainVars == <<src_file, rb, rb2, raw, chapters_in, dst_file, main_pc, main_err,
              parses, run, first_out>>
dbVars == <<db_book, db_chapter, db_glossary, db_bibliography, db_manifest, imported, now>>

tcVars == <<tc_ch, tc_ret, tc_pc>>
nbVars == <<nb_book, nb_chapters, nb_ret, nb_pc>>
callVars == <<tcVars, nbVars>>

vars == <<escVars, preVars, flatVars, mainVars, dbVars, callVars>>

-----------------------------------------------------------------------------
(* Byte values named in the source *)

QUOTE == 34
BACKSLASH == 92
LF == 10
CR == 13
LOWER_N == 110
LBRACE == 123
RBRACE == 125
SPACE == 32
TAB == 9

-----------------------------------------------------------------------------
(* Generic sequence helpers *)

RECURSIVE Flatten(_)
Flatten(ss) == IF ss = <<>> THEN <<>> ELSE Head(ss) \o Flatten(Tail(ss))

\* all sequences over S of length 0..n
SeqsUpTo(S, n) == UNION {[1..k -> S] : k \in 0..n}

-----------------------------------------------------------------------------
(* escape_newlines_inside_strings, fix_manifest.py 173-207 *)

\* bound: longest buffer given to the scanner on its own
MaxEscLen == 4

\* 97 is the letter a, standing for any other byte
EscAlphabet == {QUOTE, BACKSLASH, LF, CR, 97}

\* A plausible slip: the escape flag is never cleared after the escaped byte
EscStepKeepsEscape(st, b) ==
    IF st.in_string
    THEN IF st.escaped
         THEN [st EXCEPT !.out = Append(@, b)]
         ELSE IF b = BACKSLASH
              THEN [st EXCEPT !.out = Append(@, b), !.escaped = TRUE]
              ELSE IF b = QUOTE
                   THEN [st EXCEPT !.out = Append(@, b), !.in_string = FALSE]
                   ELSE IF b = LF \/ b = CR
                        THEN [st EXCEPT !.out = @ \o <<BACKSLASH, LOWER_N>>]
                        ELSE [st EXCEPT !.out = Append(@, b)]
    ELSE IF b = QUOTE
         THEN [st EXCEPT !.out = Append(@, b), !.in_string = TRUE, !.escaped = FALSE]
         ELSE [st EXCEPT !.out = Append(@, b)]

\* The body of the for loop (lines 180-206) applied to one byte b.
EscStep(st, b) ==
    IF st.in_string
    THEN IF st.escaped
         THEN [st EXCEPT !.out = Append(@, b), !.escaped = FALSE]
         ELSE IF b = BACKSLASH
              THEN [st EXCEPT !.out = Append(@, b), !.escaped = TRUE]
              ELSE IF b = QUOTE
                   THEN [st EXCEPT !.out = Append(@, b), !.in_string = FALSE]
                   ELSE IF b = LF
                        THEN [st EXCEPT !.out = @ \o <<BACKSLASH, LOWER_N>>]
                        ELSE IF b = CR
                             THEN [st EXCEPT !.out = @ \o <<BACKSLASH, LOWER_N>>]
                             ELSE [st EXCEPT !.out = Append(@, b)]
    ELSE IF b = QUOTE
         THEN [st EXCEPT !.out = Append(@, b), !.in_string = TRUE, !.escaped = FALSE]
         ELSE [st EXCEPT !.out = Append(@, b)]

\* lines 177-179
EscStart == [in_string |-> FALSE, escaped |-> FALSE, out |-> <<>>]

\* `for b in data` over data[lo..hi], halved so that long buffers stay shallow.
\* `CHOOSE r \in {e : x \in {a}} : TRUE` is e with x naming the value of a, as
\* an assignment to a local does: a is computed once, before e.
RECURSIVE EscRun(_, _, _, _)
EscRun(st, data, lo, hi) ==
    IF lo > hi THEN st
    ELSE IF lo = hi THEN EscStep(st, data[lo])
    ELSE CHOOSE r \in {EscRun(left, data, (lo + hi) \div 2 + 1, hi) :
                          left \in {EscRun(st, data, lo, (lo + hi) \div 2)}} : TRUE

\* The whole function, as main calls it (line 216).
escape_newlines_inside_strings(data) == EscRun(EscStart, data, 1, Len(data)).out

EscIdle ==
    /\ esc_data = <<>> /\ esc_i = 0 /\ in_string = FALSE /\ escaped = FALSE
    /\ out = <<>> /\ esc_pc = "idle"

PreIdle == pre_in = <<>> /\ pre_data = <<>> /\ pre_pc = "idle"

\* a variable that holds no value yet
Unset == [t |-> "unset", v |-> 0]

FlatIdle == block = Unset /\ flat = Unset /\ flat_pc = "idle"

MainIdle ==
    /\ src_file = <<>> /\ rb = <<>> /\ rb2 = <<>>
    /\ raw = Unset /\ chapters_in = Unset /\ dst_file = Unset
    /\ main_pc = "idle" /\ main_err = "none" /\ parses = 0 /\ run = 1
    /\ first_out = Unset

DbIdle ==
    /\ db_book = <<>> /\ db_chapter = <<>> /\ db_glossary = <<>>
    /\ db_bibliography = <<>> /\ db_manifest = <<>> /\ imported = Unset /\ now = 0

TcIdle == tc_ch = Unset /\ tc_ret = Unset /\ tc_pc = "idle"

NbIdle == nb_book = Unset /\ nb_chapters = <<>> /\ nb_ret = Unset /\ nb_pc = "idle"

CallIdle == TcIdle /\ NbIdle

EscInit ==
    /\ PreIdle /\ FlatIdle /\ MainIdle /\ DbIdle /\ CallIdle
    /\ esc_data \in SeqsUpTo(EscAlphabet, MaxEscLen)
    /\ esc_i = 0
    /\ in_string = EscStart.in_string
    /\ escaped = EscStart.escaped
    /\ out = EscStart.out
    /\ esc_pc = "scan"

\* one iteration of `for b in data`
EscLoop ==
    /\ esc_pc = "scan"
    /\ esc_i < Len(esc_data)
    /\ LET st == EscStep([in_string |-> in_string, escaped |-> escaped, out |-> out],
                         esc_data[esc_i + 1])
       IN /\ in_string' = st.in_string
          /\ escaped' = st.escaped
          /\ out' = st.out
    /\ esc_i' = esc_i + 1
    /\ UNCHANGED <<esc_data, esc_pc, preVars, flatVars, mainVars, dbVars, callVars>>

\* line 207
EscReturn ==
    /\ esc_pc = "scan"
    /\ esc_i = Len(esc_data)
    /\ esc_pc' = "returned"
    /\ UNCHANGED <<esc_data, esc_i, in_string, escaped, out, preVars, flatVars, mainVars, dbVars, callVars>>

EscNext == EscLoop \/ EscReturn

SpecEscape == EscInit /\ [][EscNext]_vars

(* ---- C1 ---- *)

\* The scanner's position as one of three modes, before byte k of d is read.
Trans(mode, b) ==
    CASE mode = "Outside" -> IF b = QUOTE THEN "InString" ELSE "Outside"
      [] mode = "InString" ->
            IF b = BACKSLASH THEN "InStringEscaped"
            ELSE IF b = QUOTE THEN "Outside" ELSE "InString"
      [] mode = "InStringEscaped" -> "InString"

RECURSIVE ModeAt(_, _)
ModeAt(d, k) == IF k = 1 THEN "Outside" ELSE Trans(ModeAt(d, k - 1), d[k - 1])

ExpectedEscape(d) ==
    Flatten([k \in 1..Len(d) |->
        IF ModeAt(d, k) = "InString" /\ d[k] \in {LF, CR}
        THEN <<BACKSLASH, LOWER_N>>
        ELSE <<d[k]>>])

\* C1: the bytes emitted so far are the bytes read so far, in order, where
\* exactly the raw LF / CR read inside a string with no escape pending are
\* replaced by backslash-n and every other byte is emitted unchanged.
C1_EscapeExact ==
    esc_pc # "idle" =>
        /\ out = ExpectedEscape(SubSeq(esc_data, 1, esc_i))
        /\ esc_pc = "returned" =>
              /\ esc_i = Len(esc_data)
              /\ out = escape_newlines_inside_strings(esc_data)

\* a returned scan that replaced a raw newline inside a string, kept one
\* outside, and stayed in string mode across an escaped quote
C1_Witness ==
    /\ esc_pc = "returned"
    /\ esc_data = <<QUOTE, BACKSLASH, QUOTE, LF>>
    /\ out = <<QUOTE, BACKSLASH, QUOTE, BACKSLASH, LOWER_N>>

-----------------------------------------------------------------------------
(* preclean_bytes, fix_manifest.py 151-170 *)

\* bound: number of fragments an input buffer is put together from
MaxPreFrags == 4

CTRL_BYTE == 1
DASH == 45

\* CTRL_CHARS_RE and the byte class of lines 154 and 222
IsCtrl(b) == b \in 0..8 \/ b \in 11..12 \/ b \in 14..31

\* re.sub(b"[\x00-\x08\x0b\x0c\x0e-\x1f]", b"", data)
StripCtrl(d) == SelectSeq(d, LAMBDA b : ~IsCtrl(b))

\* \s of a bytes pattern
IsSpaceByte(b) == b \in {SPACE, TAB, LF, CR, 11, 12}

AllSpace(d) == \A k \in 1..Len(d) : IsSpaceByte(d[k])

\* ascending enumeration of a finite set of integers
SortedSeq(S) ==
    [i \in 1..Cardinality(S) |-> CHOOSE x \in S : Cardinality({y \in S : y < x}) = i - 1]

\* bytes.splitlines(): breaks at LF, CR and CR LF; no empty last line
IsBreakEnd(d, k) ==
    \/ d[k] = LF
    \/ d[k] = CR /\ ~(k < Len(d) /\ d[k + 1] = LF)

LineStarts(d) ==
    IF d = <<>> THEN {}
    ELSE {1} \cup {k + 1 : k \in {m \in 1..(Len(d) - 1) : IsBreakEnd(d, m)}}

LineFrom(d, s) ==
    LET ends == {t \in s..Len(d) : d[t] = LF \/ d[t] = CR}
        e == IF ends = {} THEN Len(d) + 1
             ELSE CHOOSE t \in ends : \A u \in ends : t <= u
    IN SubSeq(d, s, e - 1)

splitlines(d) ==
    LET starts == SortedSeq(LineStarts(d))
    IN [i \in 1..Len(starts) |-> LineFrom(d, starts[i])]

\* b"\n".join(lines)
RECURSIVE JoinLF(_)
JoinLF(lines) ==
    IF lines = <<>> THEN <<>>
    ELSE IF Len(lines) = 1 THEN lines[1]
    ELSE lines[1] \o <<LF>> \o JoinLF(Tail(lines))

\* "... (truncated"  and  ") ..."
TRUNC_HEAD == <<46, 46, 46, 32, 40, 116, 114, 117, 110, 99, 97, 116, 101, 100>>
TRUNC_TAIL == <<41, 32, 46, 46, 46>>

\* TRUNCATED_LINE_RE.match(line):  ^\s*\.\.\. \(truncated.*\) \.\.\.\s*$
TRUNCATED_LINE_RE(line) ==
    \E i \in 0..(Len(line) - Len(TRUNC_HEAD) - Len(TRUNC_TAIL)) :
      /\ SubSeq(line, i + 1, i + Len(TRUNC_HEAD)) = TRUNC_HEAD
      /\ AllSpace(SubSeq(line, 1, i))
      /\ \E j \in (i + Len(TRUNC_HEAD))..(Len(line) - Len(TRUNC_TAIL)) :
        /\ \A k \in (i + Len(TRUNC_HEAD) + 1)..j : line[k] # LF
        /\ SubSeq(line, j + 1, j + Len(TRUNC_TAIL)) = TRUNC_TAIL
        /\ AllSpace(SubSeq(line, j + Len(TRUNC_TAIL) + 1, Len(line)))

\* TRIPLE_DASH_RE.match(line):  ^\s*---\s*$
TRIPLE_DASH_RE(line) ==
    \E i \in 0..Len(line) :
        /\ i + 3 <= Len(line)
        /\ AllSpace(SubSeq(line, 1, i))
        /\ SubSeq(line, i + 1, i + 3) = <<DASH, DASH, DASH>>
        /\ AllSpace(SubSeq(line, i + 4, Len(line)))

\* lines 156-164
DropLines(d) ==
    JoinLF(SelectSeq(splitlines(d),
                     LAMBDA line : ~TRUNCATED_LINE_RE(line) /\ ~TRIPLE_DASH_RE(line)))

\* bytes.find / bytes.rfind of one byte: 0-based index, -1 when absent
find(d, b) ==
    LET at == {k \in 1..Len(d) : d[k] = b}
    IN IF at = {} THEN -1 ELSE (CHOOSE k \in at : \A m \in at : k <= m) - 1

rfind(d, b) ==
    LET at == {k \in 1..Len(d) : d[k] = b}
    IN IF at = {} THEN -1 ELSE (CHOOSE k \in at : \A m \in at : k >= m) - 1

\* A plausible slip: slicing whenever either brace is found
SliceToBracesEitherFound(d) ==
    LET start == find(d, LBRACE)
        end == rfind(d, RBRACE)
    IN IF start # -1 \/ end # -1
       THEN SubSeq(d, (IF start = -1 THEN 0 ELSE start) + 1,
                      IF end = -1 THEN Len(d) ELSE end + 1)
       ELSE d

\* lines 166-169
SliceToBraces(d) ==
    LET start == find(d, LBRACE)
        end == rfind(d, RBRACE)
    IN IF start # -1 /\ end # -1 /\ end > start
       THEN SubSeq(d, start + 1, end + 1)
       ELSE d

\* A plausible slip: the substitution of line 154 left out
preclean_bytes_keeps_ctrl(d) == SliceToBraces(DropLines(d))

\* the whole function, as main calls it (line 214)
preclean_bytes(d) == SliceToBraces(DropLines(StripCtrl(d)))

\* "... (truncated for brevity) ..."
TRUNC_LINE ==
    TRUNC_HEAD \o <<32, 102, 111, 114, 32, 98, 114, 101, 118, 105, 116, 121>> \o TRUNC_TAIL

PreFragments ==
    { <<LBRACE>>, <<RBRACE>>, <<LF>>, <<CR>>, <<SPACE>>, <<97>>, <<CTRL_BYTE>>,
      <<DASH, DASH, DASH>>, TRUNC_LINE }

PreInputs == {Flatten(fs) : fs \in SeqsUpTo(PreFragments, MaxPreFrags)}

PreInit ==
    /\ EscIdle /\ FlatIdle /\ MainIdle /\ DbIdle /\ CallIdle
    /\ pre_in \in PreInputs
    /\ pre_data = pre_in
    /\ pre_pc = "strip"

\* line 154
PreStrip ==
    /\ pre_pc = "strip"
    /\ pre_data' = StripCtrl(pre_data)
    /\ pre_pc' = "lines"
    /\ UNCHANGED <<pre_in, escVars, flatVars, mainVars, dbVars, callVars>>

\* lines 156-164
PreLines ==
    /\ pre_pc = "lines"
    /\ pre_data' = DropLines(pre_data)
    /\ pre_pc' = "slice"
    /\ UNCHANGED <<pre_in, escVars, flatVars, mainVars, dbVars, callVars>>

\* lines 166-170
PreSlice ==
    /\ pre_pc = "slice"
    /\ pre_data' = SliceToBraces(pre_data)
    /\ pre_pc' = "returned"
    /\ UNCHANGED <<pre_in, escVars, flatVars, mainVars, dbVars, callVars>>

PreNext == PreStrip \/ PreLines \/ PreSlice

SpecPreclean == PreInit /\ [][PreNext]_vars

(* ---- C8 ---- *)

\* the buffer after control-byte removal and line dropping
PreJoined == DropLines(StripCtrl(pre_in))

HasByte(d, b) == \E k \in 1..Len(d) : d[k] = b

Bounded(d) == Len(d) >= 1 /\ d[1] = LBRACE /\ d[Len(d)] = RBRACE

\* C8 as stated: preclean_bytes never fails; if the buffer after control-byte
\* removal and line dropping holds any '{' or '}' the result starts with '{'
\* and ends with '}', and if it holds neither the result equals that buffer.
C8_AnyBraceBounded ==
    pre_pc = "returned" =>
        LET joined == PreJoined
        IN IF HasByte(joined, LBRACE) \/ HasByte(joined, RBRACE)
           THEN Bounded(pre_data)
           ELSE pre_data = joined

\* C8 amended: preclean_bytes never fails (no statement of it can raise, so
\* every call passes through its three statements to the return); if that buffer holds a '{' at an
\* earlier position than its last '}' the result is the part of the buffer from
\* its first '{' to its last '}', so it starts with '{' and ends with '}';
\* in every other case (no '{', no '}', or no '}' after the first '{') the
\* result equals that buffer unchanged.
C8_BracePairBounded ==
    /\ pre_pc \in {"strip", "lines", "slice", "returned"}
    /\ pre_pc = "slice" => pre_data = PreJoined
    /\ pre_pc = "returned" =>
          LET joined == PreJoined
              opens == {i \in 1..Len(joined) : joined[i] = LBRACE}
              closes == {j \in 1..Len(joined) : joined[j] = RBRACE}
          IN IF \E i \in opens : \E j \in closes : i < j
             THEN /\ Bounded(pre_data)
                  /\ \E i \in opens : \E j \in closes :
                        /\ i < j
                        /\ pre_data = SubSeq(joined, i, j)
                        /\ \A k \in opens : i <= k
                        /\ \A k \in closes : k <= j
             ELSE pre_data = joined

\* prose around a brace pair is cut away
C8_Witness ==
    /\ pre_pc = "returned"
    /\ pre_in = <<97, LBRACE, RBRACE>>
    /\ pre_data = <<LBRACE, RBRACE>>

\* a closing brace before the opening one: nothing is cut
C8_WitnessUnpaired ==
    /\ pre_pc = "returned"
    /\ pre_in = <<RBRACE, 97, LBRACE>>
    /\ pre_data = pre_in

-----------------------------------------------------------------------------
(* Parsed values (what json.loads returns): tagged records [t, v].          *)
(*   null: v = 0     bool: v = TRUE/FALSE     int: v = the integer          *)
(*   float: v = the number times ten (one decimal digit is kept)            *)
(*   str: v = sequence of code points    list: v = sequence of values       *)
(*   dict: v = sequence of <<key, value>>, keys distinct, insertion order   *)
(* An exception leaving a function is the value Raise.                      *)

PyNone == [t |-> "null", v |-> 0]
PyBool(b) == [t |-> "bool", v |-> b]
PyInt(n) == [t |-> "int", v |-> n]
PyFloat(tenths) == [t |-> "float", v |-> tenths]
PyStr(s) == [t |-> "str", v |-> s]
PyList(xs) == [t |-> "list", v |-> xs]
PyDict(items) == [t |-> "dict", v |-> items]
Raise == [t |-> "raise", v |-> 0]
IsRaise(x) == x.t = "raise"

IsStr(x) == x.t = "str"
IsList(x) == x.t = "list"
IsDict(x) == x.t = "dict"
IsNone(x) == x.t = "null"
\* isinstance(x, (int, float, bool))
IsNumber(x) == x.t \in {"int", "float", "bool"}
\* isinstance(x, (str, int, float, bool))
IsScalar(x) == x.t \in {"str", "int", "float", "bool"}

\* key in d
HasKey(d, k) == \E i \in 1..Len(d.v) : d.v[i][1] = k
KeyIndex(d, k) == CHOOSE i \in 1..Len(d.v) : d.v[i][1] = k
\* d[k] for a key that is present
Item(d, k) == d.v[KeyIndex(d, k)][2]
\* d.get(k, default)
GetOr(d, k, default) == IF HasKey(d, k) THEN Item(d, k) ELSE default
\* d.get(k)
Get(d, k) == GetOr(d, k, PyNone)
\* d[k] = x
SetItem(d, k, x) ==
    IF HasKey(d, k)
    THEN PyDict([d.v EXCEPT ![KeyIndex(d, k)] = <<k, x>>])
    ELSE PyDict(Append(d.v, <<k, x>>))
\* d.pop(k, PyNone), the dictionary that is left
Pop(d, k) == PyDict(SelectSeq(d.v, LAMBDA kv : kv[1] # k))
\* d.values()
Values(d) == [i \in 1..Len(d.v) |-> d.v[i][2]]

\* Python truthiness:  bool(x)
Truthy(x) ==
    CASE x.t = "null" -> FALSE
      [] x.t = "bool" -> x.v
      [] x.t \in {"int", "float"} -> x.v # 0
      [] OTHER -> x.v # <<>>

S_text == <<116, 101, 120, 116>>  \* "text"
S_paragraph == <<112, 97, 114, 97, 103, 114, 97, 112, 104>>  \* "paragraph"
S_content == <<99, 111, 110, 116, 101, 110, 116>>  \* "content"
S_children == <<99, 104, 105, 108, 100, 114, 101, 110>>  \* "children"
S_True == <<84, 114, 117, 101>>  \* "True"
S_False == <<70, 97, 108, 115, 101>>  \* "False"
S_None == <<78, 111, 110, 101>>  \* "None"

\* decimal digits of a natural number
RECURSIVE Digits(_)
Digits(n) == IF n < 10 THEN <<48 + n>> ELSE Digits(n \div 10) \o <<48 + (n % 10)>>

\* str(n) for an int
IntStr(n) == IF n < 0 THEN <<DASH>> \o Digits(-n) ELSE Digits(n)

\* str(x) for a float of one decimal digit
FloatStr(tenths) ==
    LET a == IF tenths < 0 THEN -tenths ELSE tenths
    IN (IF tenths < 0 THEN <<DASH>> ELSE <<>>) \o Digits(a \div 10) \o <<46>> \o Digits(a % 10)

\* str(x) of a scalar or PyNone
ScalarStr(x) ==
    CASE x.t = "str" -> x.v
      [] x.t = "int" -> IntStr(x.v)
      [] x.t = "float" -> FloatStr(x.v)
      [] x.t = "bool" -> IF x.v THEN S_True ELSE S_False
      [] x.t = "null" -> S_None

\* CTRL_CHARS_RE.sub("", s), line 13
SubCtrl(s) == SelectSeq(s, LAMBDA c : ~IsCtrl(c))

\* repr() of a str: quotes and backslash escapes
HexDigit(n) == IF n < 10 THEN 48 + n ELSE 87 + n
ReprChar(c, q) ==
    CASE c = BACKSLASH -> <<BACKSLASH, BACKSLASH>>
      [] c = q -> <<BACKSLASH, q>>
      [] c = LF -> <<BACKSLASH, LOWER_N>>
      [] c = CR -> <<BACKSLASH, 114>>
      [] c = TAB -> <<BACKSLASH, 116>>
      [] c < 32 \/ c = 127 -> <<BACKSLASH, 120, HexDigit(c \div 16), HexDigit(c % 16)>>
      [] OTHER -> <<c>>

RECURSIVE Concat(_)
Concat(ss) ==
    IF Len(ss) = 0 THEN <<>>
    ELSE IF Len(ss) = 1 THEN ss[1]
    ELSE LET mid == Len(ss) \div 2
         IN Concat(SubSeq(ss, 1, mid)) \o Concat(SubSeq(ss, mid + 1, Len(ss)))

StrRepr(s) ==
    LET q == IF (\E i \in 1..Len(s) : s[i] = 39) /\ ~(\E i \in 1..Len(s) : s[i] = QUOTE)
             THEN QUOTE ELSE 39
    IN <<q>> \o Concat([i \in 1..Len(s) |-> ReprChar(s[i], q)]) \o <<q>>

\* sep.join(parts) for sequences of code points
JoinSeq(sep, parts) ==
    Concat([i \in 1..Len(parts) |-> IF i = 1 THEN parts[i] ELSE sep \o parts[i]])

\* repr(x); str(x) differs from it only for a str
RECURSIVE Repr(_)
Repr(x) ==
    CASE x.t = "str" -> StrRepr(x.v)
      [] x.t = "list" ->
            <<91>> \o JoinSeq(<<44, SPACE>>, [i \in 1..Len(x.v) |-> Repr(x.v[i])]) \o <<93>>
      [] x.t = "dict" ->
            <<LBRACE>>
            \o JoinSeq(<<44, SPACE>>,
                       [i \in 1..Len(x.v) |->
                            StrRepr(x.v[i][1]) \o <<58, SPACE>> \o Repr(x.v[i][2])])
            \o <<RBRACE>>
      [] OTHER -> ScalarStr(x)

\* str(x)
StrOf(x) == IF x.t = "str" THEN x.v ELSE Repr(x)

\* clean_str, lines 10-13
\* A plausible slip: the text is converted but nothing is removed
clean_str_keeps_all(x) == PyStr(StrOf(x))

clean_str(x) == PyStr(SubCtrl(StrOf(x)))

-----------------------------------------------------------------------------
(* extract_text_from_block, fix_manifest.py 16-41 *)

\* bound: nesting depth of the content blocks tried
MaxBlockDepth == 2

\* sep.join(parts): a TypeError unless every part is a str
JoinParts(sep, parts) ==
    IF \E i \in 1..Len(parts) : ~IsStr(parts[i])
    THEN Raise
    ELSE PyStr(JoinSeq(sep, [i \in 1..Len(parts) |-> parts[i].v]))

\* `p for p in parts if p`; an exception raised while a part was computed
\* is kept so that it reaches the caller
TruthyParts(parts) == SelectSeq(parts, LAMBDA p : IsRaise(p) \/ Truthy(p))

RECURSIVE extract_text_from_block(_)

\* lines 23-25
TextParts(b) ==
    LET one(key) == IF HasKey(b, key) /\ IsScalar(Item(b, key))
                    THEN <<clean_str(Item(b, key))>> ELSE <<>>
    IN one(S_text) \o one(S_paragraph)

\* lines 26-31
ContentParts(b) ==
    IF HasKey(b, S_content)
    THEN LET c == Item(b, S_content)
         IN IF IsList(c)
            THEN [i \in 1..Len(c.v) |-> extract_text_from_block(c.v[i])]
            ELSE IF IsScalar(c) \/ IsDict(c)
                 THEN <<extract_text_from_block(c)>>
                 ELSE <<>>
    ELSE <<>>

\* lines 32-33
ChildrenParts(b) ==
    IF HasKey(b, S_children) /\ IsList(Item(b, S_children))
    THEN LET c == Item(b, S_children)
         IN [i \in 1..Len(c.v) |-> extract_text_from_block(c.v[i])]
    ELSE <<>>

\* lines 35-37
FallbackParts(b) ==
    LET vs == SelectSeq(Values(b), IsScalar)
    IN [i \in 1..Len(vs) |-> clean_str(vs[i])]

\* lines 21-38
FlattenDict(b) ==
    LET parts == TextParts(b) \o ContentParts(b) \o ChildrenParts(b)
        all == IF parts = <<>> THEN FallbackParts(b) ELSE parts
    IN JoinParts(<<LF>>, TruthyParts(all))

\* lines 39-40
FlattenList(b) ==
    LET xs == SelectSeq(b.v, LAMBDA x : ~IsNone(x))
    IN JoinParts(<<LF, LF>>, [i \in 1..Len(xs) |-> extract_text_from_block(xs[i])])

\* A plausible slip: falling off the end of the function returns None
FlattenOtherNone(b) == PyNone

\* line 41
FlattenOther(b) == PyStr(<<>>)

extract_text_from_block(b) ==
    CASE IsStr(b) -> clean_str(b)
      [] IsNumber(b) -> clean_str(PyStr(StrOf(b)))
      [] IsDict(b) -> FlattenDict(b)
      [] IsList(b) -> FlattenList(b)
      [] OTHER -> FlattenOther(b)

S_x == <<120>>  \* "x", a key the flattener does not know

BlockScalars ==
    << PyStr(<<>>), PyStr(<<97>>), PyStr(<<SPACE>>), PyStr(<<CTRL_BYTE, 98>>),
       PyInt(7), PyFloat(15), PyBool(TRUE), PyNone >>

BlockKeys == <<S_text, S_paragraph, S_content, S_children, S_x>>

ScalarIx == 1..Len(BlockScalars)
KeyIx == 1..Len(BlockKeys)

\* Shapes of the first level: a scalar, a list of up to two scalars, a mapping
\* of up to two fields; <<shape, i, j, k, m>> picks the scalars and the keys.
WideCodes ==
    {<<"scalar", i, 0, 0, 0>> : i \in ScalarIx}
    \cup {<<"list0", 0, 0, 0, 0>>, <<"dict0", 0, 0, 0, 0>>}
    \cup {<<"list1", i, 0, 0, 0>> : i \in ScalarIx}
    \cup {<<"list2", i, j, 0, 0>> : i \in ScalarIx, j \in ScalarIx}
    \cup {<<"dict1", i, 0, k, 0>> : i \in ScalarIx, k \in KeyIx}
    \cup {<<"dict2", i, j, km[1], km[2]>> :
             i \in ScalarIx, j \in ScalarIx,
             km \in {kk \in KeyIx \X KeyIx : kk[1] # kk[2]}}

WideBlock(c) ==
    CASE c[1] = "scalar" -> BlockScalars[c[2]]
      [] c[1] = "list0" -> PyList(<<>>)
      [] c[1] = "dict0" -> PyDict(<<>>)
      [] c[1] = "list1" -> PyList(<<BlockScalars[c[2]]>>)
      [] c[1] = "list2" -> PyList(<<BlockScalars[c[2]], BlockScalars[c[3]]>>)
      [] c[1] = "dict1" -> PyDict(<< <<BlockKeys[c[4]], BlockScalars[c[2]]>> >>)
      [] c[1] = "dict2" -> PyDict(<< <<BlockKeys[c[4]], BlockScalars[c[2]]>>,
                                     <<BlockKeys[c[5]], BlockScalars[c[3]]>> >>)

\* one more level: b as the only field (w a key) or the only element of a list
WrapBlock(w, b) ==
    IF w \in KeyIx THEN PyDict(<< <<BlockKeys[w], b>> >>) ELSE PyList(<<b>>)

RECURSIVE BuildBlock(_, _)
BuildBlock(c, ws) ==
    IF ws = <<>> THEN WideBlock(c) ELSE WrapBlock(Head(ws), BuildBlock(c, Tail(ws)))

FlatInit ==
    /\ EscIdle /\ PreIdle /\ MainIdle /\ DbIdle /\ CallIdle
    /\ \E c \in WideCodes : \E ws \in SeqsUpTo(KeyIx \cup {0}, MaxBlockDepth - 1) :
          block = BuildBlock(c, ws)
    /\ flat = Unset
    /\ flat_pc = "call"

\* the call and its return
FlatCall ==
    /\ flat_pc = "call"
    /\ flat' = extract_text_from_block(block)
    /\ flat_pc' = "returned"
    /\ UNCHANGED <<block, escVars, preVars, mainVars, dbVars, callVars>>

FlatNext == FlatCall

SpecFlatten == FlatInit /\ [][FlatNext]_vars

(* ---- C10 ---- *)

\* C10: for every depth-bounded content block the flattener returns (no
\* exception leaves it), what it returns is a string, and for null, for an
\* empty mapping and for an empty list that string is empty.
C10_FlattenTotal ==
    flat_pc = "returned" =>
          /\ ~IsRaise(flat)
          /\ IsStr(flat)
          /\ (block = PyNone \/ block = PyDict(<<>>) \/ block = PyList(<<>>)) => flat = PyStr(<<>>)

\* a mapping whose children field is a number and whose content is a boolean
\* still flattens to a string
C10_Witness ==
    /\ flat_pc = "returned"
    /\ block = PyDict(<< <<S_children, PyInt(7)>>,
                        <<S_content, PyBool(TRUE)>> >>)
    /\ flat = PyStr(S_True)

\* null flattens to the empty string
C10_WitnessNull == flat_pc = "returned" /\ block = PyNone /\ flat = PyStr(<<>>)

-----------------------------------------------------------------------------
(* Field names and literals of fix_manifest.py *)

S_number == <<110, 117, 109, 98, 101, 114>>  \* "number"
S_order == <<111, 114, 100, 101, 114>>  \* "order"
S_slug == <<115, 108, 117, 103>>  \* "slug"
S_title == <<116, 105, 116, 108, 101>>  \* "title"
S_summary == <<115, 117, 109, 109, 97, 114, 121>>  \* "summary"
S_tags == <<116, 97, 103, 115>>  \* "tags"
S_themes == <<116, 104, 101, 109, 101, 115>>  \* "themes"
S_body == <<98, 111, 100, 121>>  \* "body"
S_paragraphs == <<112, 97, 114, 97, 103, 114, 97, 112, 104, 115>>  \* "paragraphs"
S_audio_url == <<97, 117, 100, 105, 111, 95, 117, 114, 108>>  \* "audio_url"
S_published == <<112, 117, 98, 108, 105, 115, 104, 101, 100>>  \* "published"
S_word_count == <<119, 111, 114, 100, 95, 99, 111, 117, 110, 116>>  \* "word_count"
S_author == <<97, 117, 116, 104, 111, 114>>  \* "author"
S_subtitle == <<115, 117, 98, 116, 105, 116, 108, 101>>  \* "subtitle"
S_description == <<100, 101, 115, 99, 114, 105, 112, 116, 105, 111, 110>>  \* "description"
S_genre == <<103, 101, 110, 114, 101>>  \* "genre"
S_published_date == <<112, 117, 98, 108, 105, 115, 104, 101, 100, 95, 100, 97, 116, 101>>  \* "published_date"
S_publication_date == <<112, 117, 98, 108, 105, 99, 97, 116, 105, 111, 110, 95, 100, 97, 116, 101>>  \* "publication_date"
S_total_chapters == <<116, 111, 116, 97, 108, 95, 99, 104, 97, 112, 116, 101, 114, 115>>  \* "total_chapters"
S_total_word_count == <<116, 111, 116, 97, 108, 95, 119, 111, 114, 100, 95, 99, 111, 117, 110, 116>>  \* "total_word_count"
S_book == <<98, 111, 111, 107>>  \* "book"
S_chapters == <<99, 104, 97, 112, 116, 101, 114, 115>>  \* "chapters"
S_glossary == <<103, 108, 111, 115, 115, 97, 114, 121>>  \* "glossary"
S_bibliography == <<98, 105, 98, 108, 105, 111, 103, 114, 97, 112, 104, 121>>  \* "bibliography"
S_ready_for_import == <<114, 101, 97, 100, 121, 95, 102, 111, 114, 95, 105, 109, 112, 111, 114, 116>>  \* "ready_for_import"
S_manifest_version == <<109, 97, 110, 105, 102, 101, 115, 116, 95, 118, 101, 114, 115, 105, 111, 110>>  \* "manifest_version"
S_chapter_dash == <<99, 104, 97, 112, 116, 101, 114, 45>>  \* "chapter-"
S_Chapter_sp == <<67, 104, 97, 112, 116, 101, 114, 32>>  \* "Chapter "
S_Untitled == <<85, 110, 116, 105, 116, 108, 101, 100>>  \* "Untitled"
S_Unknown == <<85, 110, 107, 110, 111, 119, 110>>  \* "Unknown"
S_default_title == <<83, 97, 99, 114, 101, 100, 32, 67, 105, 114, 99, 117, 105, 116, 115, 58, 32, 84, 104, 101, 32, 79, 100, 121, 115, 115, 101, 121>>  \* "Sacred Circuits: The Odyssey"
S_version == <<49, 46, 48>>  \* "1.0"

-----------------------------------------------------------------------------
(* to_int and as_list, fix_manifest.py 44-59 *)

\* str.isspace() for the characters of the model (ASCII)
IsPySpace(c) == c \in {SPACE, TAB, LF, CR, 11, 12, 28, 29, 30, 31}

\* str.strip()
Strip(s) ==
    LET keep == {i \in 1..Len(s) : ~IsPySpace(s[i])}
    IN IF keep = {} THEN <<>>
       ELSE SubSeq(s, CHOOSE i \in keep : \A j \in keep : i <= j,
                      CHOOSE i \in keep : \A j \in keep : i >= j)

IsDigit(c) == c \in 48..57

RECURSIVE DigitsValue(_)
DigitsValue(ds) ==
    IF ds = <<>> THEN 0 ELSE 10 * DigitsValue(SubSeq(ds, 1, Len(ds) - 1)) + (ds[Len(ds)] - 48)

\* int(x): [ok, v]; ok is FALSE where Python raises ValueError or TypeError.
\* A str is stripped, may carry a sign, and its digits may be grouped by
\* single underscores.
IntOfStr(s) ==
    LET t == Strip(s)
        signed == t # <<>> /\ t[1] \in {DASH, 43}
        body == IF signed THEN Tail(t) ELSE t
        ds == SelectSeq(body, IsDigit)
        wellFormed ==
            /\ body # <<>>
            /\ IsDigit(body[1]) /\ IsDigit(body[Len(body)])
            /\ \A i \in 1..Len(body) :
                  \/ IsDigit(body[i])
                  \/ body[i] = 95 /\ IsDigit(body[i - 1]) /\ IsDigit(body[i + 1])
    IN IF wellFormed
       THEN [ok |-> TRUE,
             v |-> IF signed /\ t[1] = DASH THEN -DigitsValue(ds) ELSE DigitsValue(ds)]
       ELSE [ok |-> FALSE, v |-> 0]

IntOf(x) ==
    CASE x.t = "int" -> [ok |-> TRUE, v |-> x.v]
      [] x.t = "bool" -> [ok |-> TRUE, v |-> IF x.v THEN 1 ELSE 0]
      [] x.t = "float" ->
            [ok |-> TRUE, v |-> IF x.v < 0 THEN -((-x.v) \div 10) ELSE x.v \div 10]
      [] x.t = "str" -> IntOfStr(x.v)
      [] OTHER -> [ok |-> FALSE, v |-> 0]

\* to_int(value), lines 44-48 (default = 0)
to_int(x) == LET r == IntOf(x) IN IF r.ok THEN PyInt(r.v) ELSE PyInt(0)

\* the separators of line 58
IsSeparator(c) == c \in {44, 47, 124, 59}

\* re.split(r"[,/|;]", s)
SplitSeparators(s) ==
    LET cuts == SortedSeq({i \in 1..Len(s) : IsSeparator(s[i])})
        n == Len(cuts)
    IN [i \in 1..(n + 1) |->
          SubSeq(s, IF i = 1 THEN 1 ELSE cuts[i - 1] + 1,
                    IF i = n + 1 THEN Len(s) ELSE cuts[i] - 1)]

\* as_list, lines 51-59
as_list(x) ==
    IF IsNone(x) THEN PyList(<<>>)
    ELSE IF IsList(x)
    THEN LET xs == SelectSeq(x.v, LAMBDA e : ~IsNone(e))
         IN PyList([i \in 1..Len(xs) |-> clean_str(PyStr(StrOf(xs[i])))])
    ELSE LET s == clean_str(PyStr(StrOf(x))).v
             parts == SelectSeq(SplitSeparators(s),
                                LAMBDA q : q # <<>> /\ Strip(q) # <<>>)
         IN PyList([i \in 1..Len(parts) |-> PyStr(Strip(parts[i]))])

\* sanitize_strings, lines 62-69
RECURSIVE sanitize_strings(_)
sanitize_strings(obj) ==
    CASE IsDict(obj) ->
            PyDict([i \in 1..Len(obj.v) |-> <<obj.v[i][1], sanitize_strings(obj.v[i][2])>>])
      [] IsList(obj) -> PyList([i \in 1..Len(obj.v) |-> sanitize_strings(obj.v[i])])
      [] IsStr(obj) -> clean_str(obj)
      [] OTHER -> obj

-----------------------------------------------------------------------------
(* transform_chapter, fix_manifest.py 72-114 *)

\* a or b
Or(a, b) == IF Truthy(a) THEN a ELSE b

\* dict(x), line 73: a copy of a mapping; a list converts when every element
\* is a [key, value] pair or a two-character string (keys other than strings
\* are outside the model); anything else raises TypeError / ValueError
IsPair(e) ==
    \/ IsList(e) /\ Len(e.v) = 2 /\ IsStr(e.v[1])
    \/ IsStr(e) /\ Len(e.v) = 2

PairOf(e) == IF IsList(e) THEN <<e.v[1].v, e.v[2]>> ELSE <<<<e.v[1]>>, PyStr(<<e.v[2]>>)>>

RECURSIVE DictFromPairs(_, _)
DictFromPairs(d, es) ==
    IF es = <<>> THEN d
    ELSE DictFromPairs(SetItem(d, PairOf(Head(es))[1], PairOf(Head(es))[2]), Tail(es))

DictOf(x) ==
    CASE IsDict(x) -> x
      [] IsList(x) /\ (\A i \in 1..Len(x.v) : IsPair(x.v[i])) ->
            DictFromPairs(PyDict(<<>>), x.v)
      [] IsStr(x) /\ x.v = <<>> -> PyDict(<<>>)
      [] OTHER -> Raise

\* str.lower() on ASCII
Lower(s) == [i \in 1..Len(s) |-> IF s[i] \in 65..90 THEN s[i] + 32 ELSE s[i]]

IsSlugChar(c) == c \in 97..122 \/ c \in 48..57

\* str.strip("-")
StripDash(s) ==
    LET keep == {i \in 1..Len(s) : s[i] # DASH}
    IN IF keep = {} THEN <<>>
       ELSE SubSeq(s, CHOOSE i \in keep : \A j \in keep : i <= j,
                      CHOOSE i \in keep : \A j \in keep : i >= j)

\* re.sub(r"[^a-z0-9]+", "-", base).strip("-"), line 84
Slugify(base) ==
    StripDash(Concat([i \in 1..Len(base) |->
        IF IsSlugChar(base[i]) THEN <<base[i]>>
        ELSE IF i = 1 \/ IsSlugChar(base[i - 1]) THEN <<DASH>> ELSE <<>>]))

\* lines 74-79
ChapterOrder(c0) ==
    LET c1 == IF HasKey(c0, S_number)
              THEN SetItem(c0, S_number, to_int(Item(c0, S_number))) ELSE c0
    IN IF HasKey(c1, S_order)
       THEN SetItem(c1, S_order, Or(to_int(Item(c1, S_order)), GetOr(c1, S_number, PyInt(0))))
       ELSE SetItem(c1, S_order, GetOr(c1, S_number, PyInt(0)))

\* f"{x}" of a value
Format(x) == StrOf(x)

\* lines 81-86
ChapterSlug(c) ==
    IF ~Truthy(Get(c, S_slug))
    THEN LET base0 == Or(Get(c, S_title), PyStr(S_chapter_dash \o Format(Item(c, S_order))))
             base == Lower(clean_str(PyStr(StrOf(base0))).v)
         IN SetItem(c, S_slug, PyStr(Slugify(base)))
    ELSE SetItem(c, S_slug, clean_str(PyStr(StrOf(Item(c, S_slug)))))

\* lines 88-91
ChapterTitle(c) ==
    IF Truthy(Get(c, S_title))
    THEN SetItem(c, S_title, clean_str(PyStr(StrOf(Item(c, S_title)))))
    ELSE SetItem(c, S_title, PyStr(S_Chapter_sp \o Format(Item(c, S_order))))

\* lines 93-96
ChapterSummary(c) ==
    IF IsStr(Get(c, S_summary))
    THEN SetItem(c, S_summary, clean_str(Item(c, S_summary)))
    ELSE SetItem(c, S_summary, Or(Get(c, S_summary), PyStr(<<>>)))

\* lines 98-99
ChapterLists(c) ==
    LET c1 == SetItem(c, S_tags, as_list(Get(c, S_tags)))
    IN SetItem(c1, S_themes, as_list(Get(c1, S_themes)))

\* lines 104-110: the else branch
BodyFromBlocks(c) ==
    LET content == Get(c, S_content)
        t1 == IF ~IsNone(content) THEN extract_text_from_block(content) ELSE PyStr(<<>>)
        t2 == IF ~Truthy(t1) /\ HasKey(c, S_paragraphs)
              THEN extract_text_from_block(Item(c, S_paragraphs)) ELSE t1
        t3 == IF ~Truthy(t2) /\ HasKey(c, S_text)
              THEN extract_text_from_block(Item(c, S_text)) ELSE t2
    IN SetItem(c, S_body, clean_str(t3))

\* lines 101-110
ChapterBody(c) ==
    IF IsStr(Get(c, S_body)) /\ Strip(Item(c, S_body).v) # <<>>
    THEN SetItem(c, S_body, clean_str(Item(c, S_body)))
    ELSE BodyFromBlocks(c)

\* lines 112-113
ChapterPrune(c) ==
    Pop(Pop(Pop(Pop(Pop(c, S_content), S_paragraphs), S_text), S_audio_url), S_published)

\* lines 74-113: the statements in order, each on the value the one before
\* it left
ChapterSteps(c0) ==
    CHOOSE r \in
        {ChapterPrune(c6) : c6 \in
            {ChapterBody(c5) : c5 \in
                {ChapterLists(c4) : c4 \in
                    {ChapterSummary(c3) : c3 \in
                        {ChapterTitle(c2) : c2 \in
                            {ChapterSlug(c1) : c1 \in {ChapterOrder(c0)}}}}}}} : TRUE

transform_chapter(ch) ==
    CHOOSE r \in {IF IsRaise(c0) THEN Raise ELSE ChapterSteps(c0) :
                     c0 \in {DictOf(ch)}} : TRUE

-----------------------------------------------------------------------------
(* normalize_book, fix_manifest.py 117-148 *)

\* len(s.split())
TokenCount(s) ==
    Cardinality({i \in 1..Len(s) : ~IsPySpace(s[i]) /\ (i = 1 \/ IsPySpace(s[i - 1]))})

\* lines 139-146 for one chapter: what is added to total_wc
\* (an exception inside the try adds nothing)
ChapterWordCount(ch) ==
    LET wc == Get(ch, S_word_count)
    IN IF IsNone(wc)
       THEN LET body == Or(Get(ch, S_body), PyStr(<<>>))
            IN IF IsStr(body) THEN TokenCount(body.v) ELSE 0
       ELSE LET r == IntOf(wc) IN IF r.ok THEN r.v ELSE 0

RECURSIVE SumWordCounts(_)
SumWordCounts(chapters) ==
    IF chapters = <<>> THEN 0
    ELSE ChapterWordCount(Head(chapters)) + SumWordCounts(Tail(chapters))

\* lines 120-121
BookRequired(b) ==
    CHOOSE r \in
        {SetItem(b1, S_author, clean_str(PyStr(StrOf(GetOr(b1, S_author, PyStr(S_Unknown)))))) :
            b1 \in {SetItem(b, S_title,
                            clean_str(PyStr(StrOf(GetOr(b, S_title, PyStr(S_Untitled))))))}} : TRUE

\* lines 123-126
BookOptional(b) ==
    CHOOSE r \in
        {IF Truthy(Get(b1, S_description))
         THEN SetItem(b1, S_description, clean_str(PyStr(StrOf(Item(b1, S_description)))))
         ELSE b1 :
            b1 \in {IF Truthy(Get(b, S_subtitle))
                    THEN SetItem(b, S_subtitle, clean_str(PyStr(StrOf(Item(b, S_subtitle)))))
                    ELSE b}} : TRUE

\* lines 130-131
BookDate(b) ==
    IF Truthy(Get(b, S_published_date)) /\ ~Truthy(Get(b, S_publication_date))
    THEN SetItem(Pop(b, S_published_date), S_publication_date,
                 clean_str(PyStr(StrOf(Item(b, S_published_date)))))
    ELSE b

\* lines 135-147
BookTotals(b, chapters) ==
    IF chapters # <<>>
    THEN LET total_wc == SumWordCounts(chapters)
         IN SetItem(SetItem(b, S_total_chapters, PyInt(Len(chapters))),
                    S_total_word_count,
                    IF total_wc # 0 THEN PyInt(total_wc) ELSE PyNone)
    ELSE b

\* line 128
BookGenre(b) == SetItem(b, S_genre, as_list(Get(b, S_genre)))

\* line 133
BookTags(b) == SetItem(b, S_tags, as_list(Get(b, S_tags)))

normalize_book(book, chapters) ==
    CHOOSE r \in
        {BookTotals(b5, chapters) : b5 \in
            {BookTags(b4) : b4 \in
                {BookDate(b3) : b3 \in
                    {BookGenre(b2) : b2 \in
                        {BookOptional(b1) : b1 \in {BookRequired(book)}}}}}} : TRUE

-----------------------------------------------------------------------------
(* json.dumps(raw, ensure_ascii=False), fix_manifest.py 259 *)

S_true == <<116, 114, 117, 101>>  \* "true"
S_false == <<102, 97, 108, 115, 101>>  \* "false"
S_null == <<110, 117, 108, 108>>  \* "null"

\* one character of a string literal as json.dumps writes it
JsonChar(c) ==
    CASE c = QUOTE -> <<BACKSLASH, QUOTE>>
      [] c = BACKSLASH -> <<BACKSLASH, BACKSLASH>>
      [] c = LF -> <<BACKSLASH, LOWER_N>>
      [] c = CR -> <<BACKSLASH, 114>>
      [] c = TAB -> <<BACKSLASH, 116>>
      [] c = 8 -> <<BACKSLASH, 98>>
      [] c = 12 -> <<BACKSLASH, 102>>
      [] c < 32 -> <<BACKSLASH, 117, 48, 48, HexDigit(c \div 16), HexDigit(c % 16)>>
      [] OTHER -> <<c>>

JsonString(s) == <<QUOTE>> \o Concat([i \in 1..Len(s) |-> JsonChar(s[i])]) \o <<QUOTE>>

RECURSIVE dumps(_)
dumps(x) ==
    CASE x.t = "null" -> S_null
      [] x.t = "bool" -> IF x.v THEN S_true ELSE S_false
      [] x.t = "int" -> IntStr(x.v)
      [] x.t = "float" -> FloatStr(x.v)
      [] x.t = "str" -> JsonString(x.v)
      [] x.t = "list" ->
            <<91>> \o JoinSeq(<<44, SPACE>>, [i \in 1..Len(x.v) |-> dumps(x.v[i])]) \o <<93>>
      [] x.t = "dict" ->
            <<LBRACE>>
            \o JoinSeq(<<44, SPACE>>,
                       [i \in 1..Len(x.v) |->
                            JsonString(x.v[i][1]) \o <<58, SPACE>> \o dumps(x.v[i][2])])
            \o <<RBRACE>>

-----------------------------------------------------------------------------
(* json.loads(rb), fix_manifest.py 219 and 223.                             *)
(* The text is cut into tokens by one pass over the bytes, then parsed.     *)
(* Numbers with an exponent or more than one decimal digit, NaN, Infinity   *)
(* and characters beyond ASCII are outside the model: such a text is        *)
(* reported as not parsed.                                                  *)

IsJsonSpace(b) == b \in {SPACE, TAB, LF, CR}
IsPunct(b) == b \in {LBRACE, RBRACE, 91, 93, 44, 58}
IsNumByte(b) == IsDigit(b) \/ b \in {DASH, 43, 46, 69, 101}
IsLetter(b) == b \in 65..90 \/ b \in 97..122
IsHex(b) == IsDigit(b) \/ b \in 97..102 \/ b \in 65..70
HexValue(b) == IF IsDigit(b) THEN b - 48 ELSE IF b >= 97 THEN b - 87 ELSE b - 55

Token(k, v) == [k |-> k, v |-> v]

\* -?(0|[1-9]\d*)(\.\d)?  as one token; anything else is no number
NumberToken(cur) ==
    LET neg == cur[1] = DASH
        body == IF neg THEN Tail(cur) ELSE cur
        dots == {i \in 1..Len(body) : body[i] = 46}
        whole == IF dots = {} THEN body ELSE SubSeq(body, 1, (CHOOSE i \in dots : TRUE) - 1)
        frac == IF dots = {} THEN <<>>
                ELSE SubSeq(body, (CHOOSE i \in dots : TRUE) + 1, Len(body))
        wholeOk == /\ whole # <<>>
                   /\ \A i \in 1..Len(whole) : IsDigit(whole[i])
                   /\ (Len(whole) > 1 => whole[1] # 48)
        n == DigitsValue(whole)
    IN IF Cardinality(dots) > 1 \/ ~wholeOk THEN Token("error", 0)
       ELSE IF dots = {} THEN Token("value", PyInt(IF neg THEN -n ELSE n))
       ELSE IF Len(frac) = 1 /\ IsDigit(frac[1])
            THEN Token("value", PyFloat(IF neg THEN -(10 * n + frac[1] - 48)
                                        ELSE 10 * n + frac[1] - 48))
            ELSE Token("error", 0)

WordToken(cur) ==
    CASE cur = S_true -> Token("value", PyBool(TRUE))
      [] cur = S_false -> Token("value", PyBool(FALSE))
      [] cur = S_null -> Token("value", PyNone)
      [] OTHER -> Token("error", 0)

LexStart == [mode |-> "between", toks |-> <<>>, cur |-> <<>>, hex |-> <<>>]

\* the decoded character of a two-byte escape, 0 when the escape is invalid
Unescape(b) ==
    CASE b = QUOTE -> QUOTE
      [] b = BACKSLASH -> BACKSLASH
      [] b = 47 -> 47
      [] b = 98 -> 8
      [] b = 102 -> 12
      [] b = LOWER_N -> LF
      [] b = 114 -> CR
      [] b = 116 -> TAB
      [] OTHER -> 0

\* a byte met between tokens
LexBetween(st, b) ==
    CASE IsJsonSpace(b) -> [st EXCEPT !.mode = "between", !.cur = <<>>]
      [] b = QUOTE -> [st EXCEPT !.mode = "str", !.cur = <<>>]
      [] IsPunct(b) -> [st EXCEPT !.mode = "between", !.cur = <<>>,
                                  !.toks = Append(@, Token("punct", b))]
      [] IsDigit(b) \/ b = DASH -> [st EXCEPT !.mode = "num", !.cur = <<b>>]
      [] IsLetter(b) -> [st EXCEPT !.mode = "word", !.cur = <<b>>]
      [] OTHER -> [st EXCEPT !.mode = "error"]

\* the pending number or word is complete
LexFinish(st) ==
    LET tok == IF st.mode = "num" THEN NumberToken(st.cur) ELSE WordToken(st.cur)
    IN IF tok.k = "error" THEN [st EXCEPT !.mode = "error"]
       ELSE [st EXCEPT !.mode = "between", !.cur = <<>>, !.toks = Append(@, tok)]

LexStep(st, b) ==
    CASE st.mode = "error" -> st
      [] st.mode = "between" -> LexBetween(st, b)
      [] st.mode = "str" ->
            IF b = QUOTE
            THEN [st EXCEPT !.mode = "between", !.cur = <<>>,
                            !.toks = Append(@, Token("value", PyStr(st.cur)))]
            ELSE IF b = BACKSLASH THEN [st EXCEPT !.mode = "esc"]
            ELSE IF b < 32 THEN [st EXCEPT !.mode = "error"]
            ELSE [st EXCEPT !.cur = Append(@, b)]
      [] st.mode = "esc" ->
            IF b = 117 THEN [st EXCEPT !.mode = "hex", !.hex = <<>>]
            ELSE IF Unescape(b) # 0
                 THEN [st EXCEPT !.mode = "str", !.cur = Append(@, Unescape(b))]
                 ELSE [st EXCEPT !.mode = "error"]
      [] st.mode = "hex" ->
            IF ~IsHex(b) THEN [st EXCEPT !.mode = "error"]
            ELSE IF Len(st.hex) < 3 THEN [st EXCEPT !.hex = Append(@, b)]
            ELSE LET h == Append(st.hex, b)
                     c == 4096 * HexValue(h[1]) + 256 * HexValue(h[2])
                          + 16 * HexValue(h[3]) + HexValue(h[4])
                 IN IF c < 128
                    THEN [st EXCEPT !.mode = "str", !.hex = <<>>, !.cur = Append(@, c)]
                    ELSE [st EXCEPT !.mode = "error"]
      [] st.mode = "num" ->
            IF IsNumByte(b) THEN [st EXCEPT !.cur = Append(@, b)]
            ELSE LET done == LexFinish(st)
                 IN IF done.mode = "error" THEN done ELSE LexBetween(done, b)
      [] st.mode = "word" ->
            IF IsLetter(b) THEN [st EXCEPT !.cur = Append(@, b)]
            ELSE LET done == LexFinish(st)
                 IN IF done.mode = "error" THEN done ELSE LexBetween(done, b)

RECURSIVE LexRun(_, _, _, _)
LexRun(st, d, lo, hi) ==
    IF lo > hi THEN st
    ELSE IF lo = hi THEN LexStep(st, d[lo])
    ELSE CHOOSE r \in {IF left.mode = "error" THEN left
                         ELSE LexRun(left, d, (lo + hi) \div 2 + 1, hi) :
                          left \in {LexRun(st, d, lo, (lo + hi) \div 2)}} : TRUE

\* the tokens of d: [ok, toks]
Lex(d) ==
    LET st == LexRun(LexStart, d, 1, Len(d))
        end == IF st.mode \in {"num", "word"} THEN LexFinish(st) ELSE st
    IN [ok |-> end.mode = "between", toks |-> end.toks]

IsPunctTok(toks, p, b) == p <= Len(toks) /\ toks[p].k = "punct" /\ toks[p].v = b

NoParse == [ok |-> FALSE, v |-> PyNone, next |-> 0]

RECURSIVE ParseValue(_, _)
RECURSIVE ParseElems(_, _, _)
RECURSIVE ParseMembers(_, _, _)

\* a value starting at token p: [ok, v, next]
ParseValue(toks, p) ==
    IF p > Len(toks) THEN NoParse
    ELSE IF toks[p].k = "value" THEN [ok |-> TRUE, v |-> toks[p].v, next |-> p + 1]
    ELSE IF toks[p].v = 91
         THEN IF IsPunctTok(toks, p + 1, 93)
              THEN [ok |-> TRUE, v |-> PyList(<<>>), next |-> p + 2]
              ELSE ParseElems(toks, p + 1, <<>>)
    ELSE IF toks[p].v = LBRACE
         THEN IF IsPunctTok(toks, p + 1, RBRACE)
              THEN [ok |-> TRUE, v |-> PyDict(<<>>), next |-> p + 2]
              ELSE ParseMembers(toks, p + 1, PyDict(<<>>))
    ELSE NoParse

\* the elements of an array from token p on, acc holding those before
ParseElems(toks, p, acc) ==
    CHOOSE r \in
        {IF ~e.ok THEN NoParse
         ELSE IF IsPunctTok(toks, e.next, 44) THEN ParseElems(toks, e.next + 1, e.acc)
         ELSE IF IsPunctTok(toks, e.next, 93)
              THEN [ok |-> TRUE, v |-> PyList(e.acc), next |-> e.next + 1]
         ELSE NoParse :
            e \in {[ok |-> x.ok, next |-> x.next, acc |-> Append(acc, x.v)] :
                      x \in {ParseValue(toks, p)}}} : TRUE

\* the members of an object from token p on; a repeated key keeps its first
\* place and takes the last value
ParseMembers(toks, p, acc) ==
    IF ~(p <= Len(toks) /\ toks[p].k = "value" /\ IsStr(toks[p].v) /\ IsPunctTok(toks, p + 1, 58))
    THEN NoParse
    ELSE CHOOSE r \in
            {IF ~e.ok THEN NoParse
             ELSE IF IsPunctTok(toks, e.next, 44) THEN ParseMembers(toks, e.next + 1, e.d)
             ELSE IF IsPunctTok(toks, e.next, RBRACE)
                  THEN [ok |-> TRUE, v |-> e.d, next |-> e.next + 1]
             ELSE NoParse :
                e \in {[ok |-> x.ok, next |-> x.next, d |-> SetItem(acc, toks[p].v.v, x.v)] :
                          x \in {ParseValue(toks, p + 2)}}} : TRUE

\* the single document of a token list: one value and nothing after it
ParseDocument(toks) ==
    CHOOSE res \in
        {IF r.ok /\ r.next = Len(toks) + 1
         THEN [err |-> "none", v |-> r.v]
         ELSE [err |-> "JSONDecodeError", v |-> PyNone] :
            r \in {ParseValue(toks, 1)}} : TRUE

\* json.loads(d): [err, v]; err is "none", "JSONDecodeError" or
\* "UnicodeDecodeError"
loads(d) ==
    IF \E i \in 1..Len(d) : d[i] >= 128
    THEN [err |-> "UnicodeDecodeError", v |-> PyNone]
    ELSE CHOOSE res \in
            {IF lx.ok THEN ParseDocument(lx.toks)
             ELSE [err |-> "JSONDecodeError", v |-> PyNone] :
                lx \in {Lex(d)}} : TRUE

-----------------------------------------------------------------------------
(* main, fix_manifest.py 210-260, one action per statement *)

\* line 213
MainRead ==
    /\ main_pc = "read"
    /\ rb' = src_file
    /\ main_pc' = "preclean"
    /\ UNCHANGED <<src_file, rb2, raw, chapters_in, dst_file, main_err, parses, run, first_out>>
    /\ UNCHANGED <<escVars, preVars, flatVars, dbVars, callVars>>

\* line 214
MainPreclean ==
    /\ main_pc = "preclean"
    /\ rb' = preclean_bytes(rb)
    /\ main_pc' = "escape"
    /\ UNCHANGED <<src_file, rb2, raw, chapters_in, dst_file, main_err, parses, run, first_out>>
    /\ UNCHANGED <<escVars, preVars, flatVars, dbVars, callVars>>

\* line 216
MainEscape ==
    /\ main_pc = "escape"
    /\ rb' = escape_newlines_inside_strings(rb)
    /\ main_pc' = "parse"
    /\ UNCHANGED <<src_file, rb2, raw, chapters_in, dst_file, main_err, parses, run, first_out>>
    /\ UNCHANGED <<escVars, preVars, flatVars, dbVars, callVars>>

\* where main goes after the attempt-th json.loads ended with err: the except
\* clause of line 220 catches JSONDecodeError of the first call only
ParseOutcomeNoRaise(err, attempt) ==
    IF err = "none" \/ attempt = 2 THEN "sanitize"
    ELSE IF err = "JSONDecodeError" THEN "strip" ELSE "failed"

ParseOutcome(err, attempt) ==
    IF err = "none" THEN "sanitize"
    ELSE IF err = "JSONDecodeError" /\ attempt = 1 THEN "strip"
    ELSE "failed"

\* lines 218-220
MainParse ==
    /\ main_pc = "parse"
    /\ \E r \in {loads(rb)} :
        \E to \in {ParseOutcome(r.err, 1)} :
            /\ main_pc' = to
            /\ raw' = IF to = "sanitize" THEN r.v ELSE raw
            /\ main_err' = IF to = "failed" THEN r.err ELSE main_err
    /\ parses' = parses + 1
    /\ UNCHANGED <<src_file, rb, rb2, chapters_in, dst_file, run, first_out>>
    /\ UNCHANGED <<escVars, preVars, flatVars, dbVars, callVars>>

\* line 222
MainStrip ==
    /\ main_pc = "strip"
    /\ rb2' = StripCtrl(rb)
    /\ main_pc' = "reparse"
    /\ UNCHANGED <<src_file, rb, raw, chapters_in, dst_file, main_err, parses, run, first_out>>
    /\ UNCHANGED <<escVars, preVars, flatVars, dbVars, callVars>>

\* line 223
MainReparse ==
    /\ main_pc = "reparse"
    /\ \E r \in {loads(rb2)} :
        \E to \in {ParseOutcome(r.err, 2)} :
            /\ main_pc' = to
            /\ raw' = IF to = "sanitize" THEN r.v ELSE raw
            /\ main_err' = IF to = "failed" THEN r.err ELSE main_err
    /\ parses' = parses + 1
    /\ UNCHANGED <<src_file, rb, rb2, chapters_in, dst_file, run, first_out>>
    /\ UNCHANGED <<escVars, preVars, flatVars, dbVars, callVars>>

\* line 224
MainSanitize ==
    /\ main_pc = "sanitize"
    /\ raw' = sanitize_strings(raw)
    /\ main_pc' = "shape"
    /\ UNCHANGED <<src_file, rb, rb2, chapters_in, dst_file, main_err, parses, run, first_out>>
    /\ UNCHANGED <<escVars, preVars, flatVars, dbVars, callVars>>

\* lines 227-228
MainShape ==
    /\ main_pc = "shape"
    /\ main_pc' = IF IsDict(raw) THEN "chapters" ELSE "failed"
    /\ main_err' = IF IsDict(raw) THEN main_err ELSE "ValueError"
    /\ UNCHANGED <<src_file, rb, rb2, raw, chapters_in, dst_file, parses, run, first_out>>
    /\ UNCHANGED <<escVars, preVars, flatVars, dbVars, callVars>>

\* [transform_chapter(ch) for ch in chs]: Raise when one call raises
TransformAll(chs) ==
    CHOOSE r \in
        {IF \E i \in 1..Len(done) : IsRaise(done[i]) THEN Raise ELSE PyList(done) :
            done \in {[i \in 1..Len(chs.v) |-> transform_chapter(chs.v[i])]}} : TRUE

\* lines 230-236: the value of chapters_in
ChaptersOf(r) ==
    IF HasKey(r, S_chapters) /\ IsList(Item(r, S_chapters))
    THEN TransformAll(Item(r, S_chapters))
    ELSE IF /\ HasKey(r, S_book) /\ IsDict(Item(r, S_book))
            /\ HasKey(Item(r, S_book), S_chapters)
            /\ IsList(Item(Item(r, S_book), S_chapters))
         THEN TransformAll(Item(Item(r, S_book), S_chapters))
         ELSE PyList(<<>>)

\* lines 230-236
MainChapters ==
    /\ main_pc = "chapters"
    /\ \E chs \in {ChaptersOf(raw)} :
        IF IsRaise(chs)
        THEN /\ main_pc' = "failed"
             /\ main_err' = "TypeError/ValueError"
             /\ UNCHANGED chapters_in
        ELSE /\ main_pc' = "book"
             /\ chapters_in' = chs
             /\ UNCHANGED main_err
    /\ UNCHANGED <<src_file, rb, rb2, raw, dst_file, parses, run, first_out>>
    /\ UNCHANGED <<escVars, preVars, flatVars, dbVars, callVars>>

\* lines 239-246: the book of the manifest
BookOf(r, chapters) ==
    IF HasKey(r, S_book) /\ IsDict(Item(r, S_book))
    THEN normalize_book(Item(r, S_book), chapters)
    ELSE normalize_book(PyDict(<< <<S_title, PyStr(S_default_title)>>,
                                  <<S_author, PyStr(S_Unknown)>> >>), chapters)

\* lines 239-246
MainBook ==
    /\ main_pc = "book"
    /\ \E b \in {BookOf(raw, chapters_in.v)} : raw' = SetItem(raw, S_book, b)
    /\ main_pc' = "set_chapters"
    /\ UNCHANGED <<src_file, rb, rb2, chapters_in, dst_file, main_err, parses, run, first_out>>
    /\ UNCHANGED <<escVars, preVars, flatVars, dbVars, callVars>>

\* line 249
MainSetChapters ==
    /\ main_pc = "set_chapters"
    /\ raw' = SetItem(raw, S_chapters, chapters_in)
    /\ main_pc' = "prune"
    /\ UNCHANGED <<src_file, rb, rb2, chapters_in, dst_file, main_err, parses, run, first_out>>
    /\ UNCHANGED <<escVars, preVars, flatVars, dbVars, callVars>>

\* line 252
allowed_top == {S_book, S_chapters, S_glossary, S_bibliography, S_ready_for_import,
                S_manifest_version}

\* line 253
PruneNothing(r) == r

PruneTop(r) == PyDict(SelectSeq(r.v, LAMBDA kv : kv[1] \in allowed_top))

\* lines 252-253
MainPrune ==
    /\ main_pc = "prune"
    /\ raw' = PruneTop(raw)
    /\ main_pc' = "defaults"
    /\ UNCHANGED <<src_file, rb, rb2, chapters_in, dst_file, main_err, parses, run, first_out>>
    /\ UNCHANGED <<escVars, preVars, flatVars, dbVars, callVars>>

\* d.setdefault(k, x)
SetDefault(d, k, x) == IF HasKey(d, k) THEN d ELSE SetItem(d, k, x)

\* lines 256-257
MainDefaults ==
    /\ main_pc = "defaults"
    /\ raw' = SetDefault(SetDefault(raw, S_ready_for_import, PyBool(TRUE)),
                         S_manifest_version, PyStr(S_version))
    /\ main_pc' = "write"
    /\ UNCHANGED <<src_file, rb, rb2, chapters_in, dst_file, main_err, parses, run, first_out>>
    /\ UNCHANGED <<escVars, preVars, flatVars, dbVars, callVars>>

\* line 259
MainWrite ==
    /\ main_pc = "write"
    /\ dst_file' = PyStr(dumps(raw))
    /\ main_pc' = "done"
    /\ UNCHANGED <<src_file, rb, rb2, raw, chapters_in, main_err, parses, run, first_out>>
    /\ UNCHANGED <<escVars, preVars, flatVars, dbVars, callVars>>

\* the tool is run again on what it wrote: cleaned_import_manifest.json
\* becomes import_manifest.json and main starts over
MainRefeed ==
    /\ main_pc = "done" /\ run = 1
    /\ src_file' = dst_file.v
    /\ first_out' = dst_file
    /\ dst_file' = Unset
    /\ rb' = <<>> /\ rb2' = <<>> /\ raw' = Unset /\ chapters_in' = Unset
    /\ parses' = 0 /\ run' = 2
    /\ main_pc' = "read"
    /\ UNCHANGED main_err
    /\ UNCHANGED <<escVars, preVars, flatVars, dbVars, callVars>>

-----------------------------------------------------------------------------
(* The manifests the pipeline is run on *)

MaxChapters == 2

\* text used by the inputs below
L_A_c1_b == <<65, 1, 98>>  \* "A\x01b"
L_a_b_c == <<97, 32, 98, 32, 99>>  \* "a b c"
L_blank == <<32>>  \* " "
L_d_e == <<100, 32, 101>>  \* "d e"
L_x_y == <<120, 44, 32, 121>>  \* "x, y"
L_abc == <<97, 98, 99>>  \* "abc"
L_a_c2 == <<97, 2>>  \* "a\x02"
L_b == <<98>>  \* "b"
L_note == <<110, 111, 116, 101>>  \* "note"
L_k_c3 == <<107, 3>>  \* "k\x03"
L_empty == <<>>  \* ""
L_ab == <<97, 98>>  \* "ab"
L_S_c4 == <<83, 4>>  \* "S\x04"
L_t_c5 == <<116, 5>>  \* "t\x05"
L_12 == <<49, 50>>  \* "12"
L_k_c6 == <<107, 6>>  \* "k\x06"
L_v == <<118>>  \* "v"
L_k_c7 == <<107, 7>>  \* "k\x07"
L_p_q == <<112, 32, 113>>  \* "p q"
L_r == <<114>>  \* "r"
L_T_c1 == <<84, 1>>  \* "T\x01"
L_2020 == <<50, 48, 50, 48>>  \* "2020"
L_a_b == <<97, 47, 98>>  \* "a/b"
L_s == <<115>>  \* "s"
L_u_c2 == <<117, 2>>  \* "u\x02"
L_term == <<116, 101, 114, 109>>  \* "term"
L_g_c2 == <<103, 2>>  \* "g\x02"
L_definition == <<100, 101, 102, 105, 110, 105, 116, 105, 111, 110>>  \* "definition"
L_extra == <<101, 120, 116, 114, 97>>  \* "extra"
L_notalist == <<110, 111, 116, 97, 108, 105, 115, 116>>  \* "notalist"
L_2_0 == <<50, 46, 48>>  \* "2.0"

\* chapters as json.loads may return them: mappings with fields of many shapes,
\* and elements that are no mappings
ChapterPool ==
    <<
      \* a chapter as it should be, but for a control character
      PyDict(<< <<S_order, PyInt(2)>>,
                <<S_title, PyStr(L_A_c1_b)>>,
                <<S_body, PyStr(L_a_b_c)>> >>),
      \* non-numeric number, non-string title, blank content
      PyDict(<< <<S_number, PyStr(S_x)>>,
                <<S_title, PyInt(5)>>,
                <<S_content, PyStr(L_blank)>> >>),
      \* an explicit word_count
      PyDict(<< <<S_body, PyStr(L_d_e)>>,
                <<S_word_count, PyInt(9)>>,
                <<S_tags, PyStr(L_x_y)>> >>),
      \* a word_count that is no number
      PyDict(<< <<S_body, PyStr(L_a_b_c)>>, <<S_word_count, PyStr(L_abc)>> >>),
      \* nested content
      PyDict(<< <<S_content, PyList(<<PyDict(<< <<S_text, PyStr(L_a_c2)>> >>), PyStr(L_b)>>)>>,
                <<S_published, PyBool(TRUE)>>,
                <<L_note, PyStr(L_k_c3)>> >>),
      \* nothing to count
      PyDict(<< <<S_body, PyStr(L_empty)>>, <<S_word_count, PyNone>> >>),
      \* no mapping
      PyInt(5),
      \* no mapping
      PyStr(L_ab),
      \* no mapping, yet accepted by dict()
      PyList(<<>>),
      \* a word_count given as text
      PyDict(<< <<S_order, PyInt(-1)>>,
                <<S_slug, PyStr(L_S_c4)>>,
                <<S_summary, PyFloat(35)>>,
                <<S_themes, PyList(<<PyStr(L_t_c5), PyNone>>)>>,
                <<S_word_count, PyStr(L_12)>> >>),
      \* control characters in keys
      PyDict(<< <<S_title, PyDict(<< <<L_k_c6, PyStr(L_v)>> >>)>>, <<L_k_c7, PyInt(1)>> >>),
      \* a word_count that is a list
      PyDict(<< <<S_word_count, PyList(<<PyInt(1)>>)>>,
                <<S_paragraphs, PyList(<<PyStr(L_p_q), PyStr(L_r)>>)>> >>)
    >>

BookPlain ==
    PyDict(<< <<S_title, PyStr(L_T_c1)>>,
              <<S_author, PyInt(7)>>,
              <<S_published_date, PyStr(L_2020)>>,
              <<S_genre, PyStr(L_a_b)>> >>)

BookNested ==
    PyDict(<< <<S_subtitle, PyStr(L_s)>> >>)

BookOdd ==
    PyDict(<< <<S_title, PyNone>>,
              <<S_total_word_count, PyInt(5)>>,
              <<S_tags, PyList(<<PyStr(L_u_c2)>>)>> >>)

GlossaryOne ==
    PyList(<<PyDict(<< <<L_term, PyStr(L_g_c2)>>, <<L_definition, PyInt(1)>> >>)>>)

\* the list of the pool's chapters picked by cs
PoolList(cs) == PyList([i \in 1..Len(cs) |-> ChapterPool[cs[i]]])

TopShapes == 1..8

\* a root value of shape b around the chapter list chs
Root(b, chs) ==
    CASE b = 1 -> PyDict(<< <<S_book, BookPlain>>, <<S_chapters, chs>>,
                            <<S_glossary, GlossaryOne>>, <<L_extra, PyInt(1)>> >>)
      [] b = 2 -> PyDict(<< <<S_chapters, chs>> >>)
      [] b = 3 -> PyDict(<< <<S_book, SetItem(BookNested, S_chapters, chs)>>,
                            <<S_bibliography, PyList(<<>>)>>,
                            <<S_ready_for_import, PyBool(FALSE)>>,
                            <<S_manifest_version, PyStr(L_2_0)>> >>)
      [] b = 4 -> PyDict(<< <<S_book, PyStr(S_x)>>, <<S_chapters, chs>>,
                            <<S_ready_for_import, PyNone>> >>)
      [] b = 5 -> PyDict(<< <<S_book, BookOdd>>, <<S_chapters, chs>>,
                            <<S_glossary, PyNone>>, <<S_manifest_version, PyInt(3)>> >>)
      [] b = 6 -> PyList(<<PyInt(Len(chs.v))>>)
      [] b = 7 -> PyDict(<< <<S_chapters, PyStr(L_notalist)>>,
                            <<S_book, PyDict(<< <<S_chapters, chs>> >>)>> >>)
      [] b = 8 -> PyDict(<< <<S_chapters, PyDict(<< <<S_x, chs>> >>)>> >>)

\* main from the point where json.loads has returned root: the file read is
\* the serialization of root, which the two byte-level repairs leave as it is
NormInit ==
    /\ EscIdle /\ PreIdle /\ FlatIdle /\ DbIdle /\ CallIdle
    /\ \E b \in TopShapes, cs \in SeqsUpTo(1..Len(ChapterPool), MaxChapters) :
          LET root == Root(b, PoolList(cs))
          IN /\ src_file = dumps(root)
             /\ raw = root
    /\ rb = src_file /\ rb2 = <<>>
    /\ chapters_in = Unset /\ dst_file = Unset
    /\ main_pc = "sanitize" /\ main_err = "none" /\ parses = 1 /\ run = 1
    /\ first_out = Unset

NormNext ==
    \/ MainSanitize \/ MainShape \/ MainChapters \/ MainBook
    \/ MainSetChapters \/ MainPrune \/ MainDefaults \/ MainWrite

SpecNormalize == NormInit /\ [][NormNext]_vars

\* the position after the first '"' of d, 0 when there is none
AfterFirstQuote(d) == LET p == find(d, QUOTE) IN IF p = -1 THEN 0 ELSE p + 1

InsertAt(d, p, x) == SubSeq(d, 1, p) \o x \o SubSeq(d, p + 1, Len(d))

Damages == 0..8

\* the file an export tool may leave of the text d
Damage(d, k) ==
    CASE k = 0 -> d
      \* a stray control byte
      [] k = 1 -> InsertAt(d, 1, <<CTRL_BYTE>>)
      \* prose around the JSON and a separator line
      [] k = 2 -> L_note \o <<58, SPACE>> \o d \o <<LF, DASH, DASH, DASH, LF>>
      \* a raw line break inside a string
      [] k = 3 -> InsertAt(d, AfterFirstQuote(d), <<LF>>)
      \* the last byte lost
      [] k = 4 -> SubSeq(d, 1, Len(d) - 1)
      \* a byte that is no UTF-8
      [] k = 5 -> InsertAt(d, AfterFirstQuote(d), <<255>>)
      \* a truncation marker on a line of its own
      [] k = 6 -> InsertAt(d, 1, <<LF>> \o TRUNC_LINE \o <<LF>>)
      \* an escaped control character inside a string
      [] k = 7 -> InsertAt(d, AfterFirstQuote(d), <<BACKSLASH, 117, 48, 48, 48, 49>>)
      \* a stray control byte and the last byte lost
      [] k = 8 -> InsertAt(SubSeq(d, 1, Len(d) - 1), 1, <<CTRL_BYTE>>)

MainShapes == {1, 2, 3, 6}
MainChapterIx == {1, 2, 7}

MainInputs ==
    {Damage(d, k) :
        d \in {dumps(Root(b, PoolList(cs))) :
                  b \in MainShapes, cs \in SeqsUpTo(MainChapterIx, MaxChapters)},
        k \in Damages}

MainInit ==
    /\ EscIdle /\ PreIdle /\ FlatIdle /\ DbIdle /\ CallIdle
    /\ src_file \in MainInputs
    /\ rb = <<>> /\ rb2 = <<>>
    /\ raw = Unset /\ chapters_in = Unset /\ dst_file = Unset
    /\ main_pc = "read" /\ main_err = "none" /\ parses = 0 /\ run = 1
    /\ first_out = Unset

MainNext ==
    \/ MainRead \/ MainPreclean \/ MainEscape \/ MainParse \/ MainStrip
    \/ MainReparse \/ MainSanitize \/ MainShape \/ MainChapters \/ MainBook
    \/ MainSetChapters \/ MainPrune \/ MainDefaults \/ MainWrite \/ MainRefeed

SpecMain == MainInit /\ [][MainNext]_vars

-----------------------------------------------------------------------------
(* Claims about main *)

Ended == main_pc \in {"done", "failed"}

\* C2: running the pipeline on the output of a successful run succeeds and
\* writes that same output again, byte for byte.
C2_RerunIdentical ==
    run = 2 /\ Ended => main_pc = "done" /\ dst_file.v = first_out.v

\* no string leaf of x holds a character of 0x00-0x08, 0x0B-0x0C, 0x0E-0x1F
RECURSIVE CleanLeaves(_)
CleanLeaves(x) ==
    CASE IsStr(x) -> \A i \in 1..Len(x.v) : ~IsCtrl(x.v[i])
      [] IsList(x) -> \A i \in 1..Len(x.v) : CleanLeaves(x.v[i])
      [] IsDict(x) -> \A i \in 1..Len(x.v) : CleanLeaves(x.v[i][2])
      [] OTHER -> TRUE

KeysOf(d) == {d.v[i][1] : i \in 1..Len(d.v)}

\* C4: the emitted manifest has top-level keys among the six allowed ones;
\* book, chapters, ready_for_import and manifest_version are present; glossary
\* and bibliography are present exactly when the parsed root had them; a root
\* without ready_for_import or manifest_version gets true and "1.0".
C4_TopLevelKeys ==
    main_pc = "done" =>
        LET given == KeysOf(loads(src_file).v)
            keys == KeysOf(raw)
        IN /\ keys \subseteq allowed_top
           /\ {S_book, S_chapters, S_ready_for_import, S_manifest_version} \subseteq keys
           /\ (S_glossary \in keys <=> S_glossary \in given)
           /\ (S_bibliography \in keys <=> S_bibliography \in given)
           /\ (S_ready_for_import \notin given =>
                  LET r == Item(raw, S_ready_for_import)
                  IN r.t = "bool" /\ r.v = TRUE)
           /\ (S_manifest_version \notin given =>
                  LET m == Item(raw, S_manifest_version)
                  IN IsStr(m) /\ m.v = S_version)

\* a manifest emitted for a root with a glossary, a key that is not allowed,
\* no bibliography and neither of the two defaults
C4_Witness ==
    /\ main_pc = "done"
    /\ src_file = dumps(Root(1, PoolList(<<3>>)))
    /\ KeysOf(raw) = {S_book, S_chapters, S_glossary, S_ready_for_import, S_manifest_version}

\* what C5 says a chapter adds to total_word_count
ClaimedWordCount(ch) ==
    IF HasKey(ch, S_word_count) /\ IntOf(Item(ch, S_word_count)).ok
    THEN IntOf(Item(ch, S_word_count)).v
    ELSE LET body == Get(ch, S_body) IN IF IsStr(body) THEN TokenCount(body.v) ELSE 0

RECURSIVE ClaimedTotal(_)
ClaimedTotal(chapters) ==
    IF chapters = <<>> THEN 0
    ELSE ClaimedWordCount(Head(chapters)) + ClaimedTotal(Tail(chapters))

\* C5: for a non-empty chapter list the book gets total_chapters = the number
\* of chapters and total_word_count = the sum of each chapter's word_count
\* when present and integer-coercible, else of its body's token count; a sum
\* of zero is stored as null.
C5_TotalsAsClaimed ==
    main_pc = "set_chapters" /\ chapters_in.v # <<>> =>
        LET book == Item(raw, S_book)
            n == Get(book, S_total_chapters)
            wc == Get(book, S_total_word_count)
            sum == ClaimedTotal(chapters_in.v)
        IN /\ n.t = "int" /\ n.v = Len(chapters_in.v)
           /\ IF sum = 0 THEN IsNone(wc) ELSE wc.t = "int" /\ wc.v = sum

\* C6: once the root is a mapping the run completes; a run ends without a
\* manifest only by the parse failure after the retry or by a root that is
\* no mapping.
C6_OnlyTwoFatal ==
    main_pc = "failed" =>
        \/ main_err = "JSONDecodeError" /\ parses = 2
        \/ main_err = "ValueError" /\ ~IsDict(raw)

\* C9: json.loads is called at most twice; the second call is made only after
\* the first failed, on the control-stripped copy of the same buffer; when it
\* fails too the run has ended with that error, nothing after the parse has
\* run and no output is written.
C9_SingleRetry ==
    /\ parses <= 2
    /\ main_pc \in {"strip", "reparse"} => parses = 1 /\ loads(rb).err = "JSONDecodeError"
    /\ parses = 2 =>
          /\ loads(rb).err = "JSONDecodeError"
          /\ rb2 = StripCtrl(rb)
          /\ (loads(rb2).err # "none" =>
                 /\ main_pc = "failed" /\ main_err = "JSONDecodeError"
                 /\ raw.t = "unset" /\ chapters_in.t = "unset" /\ dst_file.t = "unset")

\* a run whose second parse failed
C9_Witness ==
    /\ main_pc = "failed" /\ parses = 2
    /\ loads(StripCtrl(rb)).err = "JSONDecodeError"

-----------------------------------------------------------------------------
(* import_manifest, main.py 166-215.  A collection is the sequence of its   *)
(* documents; a document is what model_dump() returns, with the fields the  *)
(* handler reads and one field of content.                                  *)

S_cover_image == <<99, 111, 118, 101, 114, 95, 105, 109, 97, 103, 101>>  \* "cover_image"
S_url == <<117, 114, 108>>  \* "url"
S_concept == <<99, 111, 110, 99, 101, 112, 116>>  \* "concept"
S_alt_text == <<97, 108, 116, 95, 116, 101, 120, 116>>  \* "alt_text"
S_citation == <<99, 105, 116, 97, 116, 105, 111, 110>>  \* "citation"
S_imported_at == <<105, 109, 112, 111, 114, 116, 101, 100, 95, 97, 116>>  \* "imported_at"
S_counts == <<99, 111, 117, 110, 116, 115>>  \* "counts"

\* slugify, main.py 40-44
MainSlugKeep(c) == c \in 97..122 \/ IsDigit(c) \/ IsPySpace(c) \/ c = DASH
MainSlugGap(c) == IsPySpace(c) \/ c = 95 \/ c = DASH

slugify(text) ==
    LET kept == SelectSeq(Lower(text), MainSlugKeep)
        \* a run of gaps becomes one '-': every gap but the first of its run goes
        firsts == [i \in 1..Len(kept) |->
                      IF ~MainSlugGap(kept[i]) THEN <<kept[i]>>
                      ELSE IF i > 1 /\ MainSlugGap(kept[i - 1]) THEN <<>> ELSE <<DASH>>]
    IN StripDash(Concat(firsts))

\* lines 180-185: the document stored for one chapter
ChapterDoc(ch) ==
    LET data == IF ~Truthy(Get(ch, S_slug))
                THEN SetItem(ch, S_slug,
                             PyStr(S_chapter_dash \o Format(GetOr(ch, S_order, PyInt(0)))
                                   \o <<DASH>> \o slugify(GetOr(ch, S_title, PyStr(<<>>)).v)))
                ELSE ch
        ci == Get(data, S_cover_image)
    IN IF IsStr(ci)
       THEN SetItem(data, S_cover_image,
                    PyDict(<< <<S_url, ci>>, <<S_concept, PyNone>>, <<S_alt_text, PyNone>> >>))
       ELSE data

\* lines 178-186
ChapterDocs(chs) == [i \in 1..Len(chs) |-> ChapterDoc(chs[i])]

\* len(x) for an optional list, lines 208-209
CountOf(x) == IF IsNone(x) THEN 0 ELSE Len(x.v)

\* lines 202-211
ManifestDoc(payload, chapter_docs, at) ==
    PyDict(<< <<S_ready_for_import, PyBool(Truthy(Item(payload, S_ready_for_import)))>>,
              <<S_manifest_version, Or(Item(payload, S_manifest_version), PyStr(S_version))>>,
              <<S_imported_at, PyInt(at)>>,
              <<S_counts,
                PyDict(<< <<S_chapters, PyInt(Len(chapter_docs))>>,
                          <<S_glossary, PyInt(CountOf(Item(payload, S_glossary)))>>,
                          <<S_bibliography, PyInt(CountOf(Item(payload, S_bibliography)))>> >>)>> >>)

\* lines 191-198: an optional collection after the import
ReplaceOptional(stored, given) == IF IsNone(given) THEN stored ELSE given.v

MaxImports == 3

L_T1 == <<84, 49>>  \* "T1"
L_T2 == <<84, 50>>  \* "T2"
L_One_Two == <<79, 110, 101, 95, 32, 84, 119, 111>>  \* "One_ Two"
L_u == <<117>>  \* "u"
L_c1 == <<99, 49>>  \* "c1"

\* the payloads of the requests: what pydantic hands to the handler
PayloadBooks ==
    << PyDict(<< <<S_title, PyStr(L_T1)>>, <<S_author, PyStr(L_a_b_c)>> >>),
       PyDict(<< <<S_title, PyStr(L_T2)>>, <<S_author, PyStr(L_ab)>> >> ) >>

PayloadChapters ==
    << PyDict(<< <<S_order, PyInt(1)>>, <<S_title, PyStr(L_One_Two)>>, <<S_body, PyStr(L_a_b_c)>>,
                 <<S_cover_image, PyNone>>, <<S_slug, PyNone>> >>),
       PyDict(<< <<S_order, PyInt(2)>>, <<S_title, PyStr(L_T2)>>, <<S_body, PyStr(L_d_e)>>,
                 <<S_cover_image,
                   PyDict(<< <<S_url, PyNone>>, <<S_concept, PyStr(L_u)>>,
                             <<S_alt_text, PyNone>> >>)>>,
                 <<S_slug, PyStr(L_s)>> >>) >>

PayloadGlossaries ==
    << PyNone, PyList(<<>>),
       PyList(<<PyDict(<< <<L_term, PyStr(L_v)>>, <<L_definition, PyStr(L_d_e)>> >>)>>) >>

PayloadBibliographies ==
    << PyNone, PyList(<<PyDict(<< <<S_citation, PyStr(L_c1)>> >>)>>) >>

PayloadMetas ==
    << <<PyBool(TRUE), PyNone>>, <<PyNone, PyStr(L_2_0)>> >>

Payload(b, cs, g, r, m) ==
    PyDict(<< <<S_book, PayloadBooks[b]>>,
              <<S_chapters, PyList([i \in 1..Len(cs) |-> PayloadChapters[cs[i]]])>>,
              <<S_glossary, PayloadGlossaries[g]>>,
              <<S_bibliography, PayloadBibliographies[r]>>,
              <<S_ready_for_import, PayloadMetas[m][1]>>,
              <<S_manifest_version, PayloadMetas[m][2]>> >>)

ImportInit ==
    /\ EscIdle /\ PreIdle /\ FlatIdle /\ MainIdle /\ CallIdle
    /\ db_book = <<>> /\ db_chapter = <<>> /\ db_glossary = <<>>
    /\ db_bibliography = <<>> /\ db_manifest = <<>>
    /\ imported = Unset /\ now = 0

\* one request served by import_manifest, lines 170-213
Import(payload) ==
    /\ now < MaxImports
    /\ LET chapter_docs == ChapterDocs(Item(payload, S_chapters).v)
       IN /\ db_book' = <<Item(payload, S_book)>>
          /\ db_chapter' = chapter_docs
          /\ db_glossary' = ReplaceOptional(db_glossary, Item(payload, S_glossary))
          /\ db_bibliography' = ReplaceOptional(db_bibliography, Item(payload, S_bibliography))
          /\ db_manifest' = <<ManifestDoc(payload, chapter_docs, now)>>
    /\ imported' = payload
    /\ now' = now + 1
    /\ UNCHANGED <<escVars, preVars, flatVars, mainVars, callVars>>

ImportNext ==
    \E b \in 1..Len(PayloadBooks), cs \in SeqsUpTo(1..Len(PayloadChapters), MaxChapters),
       g \in 1..Len(PayloadGlossaries), r \in 1..Len(PayloadBibliographies),
       m \in 1..Len(PayloadMetas) :
        Import(Payload(b, cs, g, r, m))

SpecImport == ImportInit /\ [][ImportNext]_vars

\* a = b for Python values, compared tag first
RECURSIVE ValEq(_, _)
ValEq(a, b) ==
    /\ a.t = b.t
    /\ CASE a.t = "list" ->
              Len(a.v) = Len(b.v) /\ \A i \in 1..Len(a.v) : ValEq(a.v[i], b.v[i])
         [] a.t = "dict" ->
              /\ Len(a.v) = Len(b.v)
              /\ \A i \in 1..Len(a.v) : a.v[i][1] = b.v[i][1] /\ ValEq(a.v[i][2], b.v[i][2])
         [] a.t \in {"null", "unset", "raise"} -> TRUE
         [] OTHER -> a.v = b.v

\* the collection holds exactly the documents docs
Holds(collection, docs) == ValEq(PyList(collection), PyList(docs))

\* the documents of an optional list of the manifest
ListOrEmpty(given) == IF IsNone(given) THEN <<>> ELSE given.v

\* C7: after any sequence of imports the book, chapter, glossary and
\* bibliography collections hold exactly what the latest imported manifest
\* holds, also when it has no glossary or no bibliography.
C7_LatestImportOnly ==
    imported.t # "unset" =>
        /\ Holds(db_book, <<Item(imported, S_book)>>)
        /\ Holds(db_chapter, ChapterDocs(Item(imported, S_chapters).v))
        /\ Holds(db_glossary, ListOrEmpty(Item(imported, S_glossary)))
        /\ Holds(db_bibliography, ListOrEmpty(Item(imported, S_bibliography)))


-----------------------------------------------------------------------------
(* Claims about the list case of extract_text_from_block *)

\* the flattened texts of the non-null elements of a list block, in order
ElementTexts(b) ==
    LET xs == SelectSeq(b.v, LAMBDA x : ~IsNone(x))
    IN [i \in 1..Len(xs) |-> extract_text_from_block(xs[i]).v]

\* a text that is empty or holds white space only
IsBlankText(s) == \A i \in 1..Len(s) : IsPySpace(s[i])

\* C14: a list block flattens to the texts of its non-null elements, in
\* order, joined by a blank line, the empty and whitespace-only texts dropped
\* before the join.
C14_ListDropsBlank ==
    flat_pc = "returned" /\ IsList(block) =>
        \E texts \in {ElementTexts(block)} :
            flat.v = JoinSeq(<<LF, LF>>, SelectSeq(texts, LAMBDA s : ~IsBlankText(s)))

\* what the join of lines 39-40 gives: every non-null element keeps its
\* place, empty or not
C14_ListJoinsAll ==
    flat_pc = "returned" /\ IsList(block) =>
        flat.v = JoinSeq(<<LF, LF>>, ElementTexts(block))

-----------------------------------------------------------------------------
(* Claims about the retry of main *)

\* C15: the buffer main parses holds no byte of 0x00-0x08, 0x0B-0x0C,
\* 0x0E-0x1F, so the buffer of the second json.loads equals the buffer of the
\* first, and a run that made the second call ends in its failure.
C15_RetrySameBuffer ==
    /\ main_pc \in {"parse", "strip", "reparse"} => \A i \in 1..Len(rb) : ~IsCtrl(rb[i])
    /\ main_pc = "reparse" => rb2 = rb
    /\ parses = 2 => main_pc = "failed" /\ rb2 = rb

\* a file with a control byte whose first parse failed: the retry was made on
\* the same bytes and failed too
C15_Witness ==
    /\ parses = 2 /\ main_pc = "failed" /\ main_err = "JSONDecodeError"
    /\ \E i \in 1..Len(src_file) : IsCtrl(src_file[i])
    /\ rb # <<>> /\ rb2 = rb

-----------------------------------------------------------------------------
(* transform_chapter called on raw chapter mappings, fix_manifest.py 72-114 *)

L_m4 == <<45, 52>>  \* "-4"
L_c == <<99>>  \* "c"
L_t == <<116>>  \* "t"

\* what a raw chapter may hold in each field; the first choice of each is the
\* field left out
OrderChoices ==
    << <<>>, <<PyInt(-1)>>, <<PyInt(0)>>, <<PyInt(2)>>, <<PyStr(S_x)>>, <<PyStr(L_m4)>>,
       <<PyFloat(15)>>, <<PyFloat(-5)>>, <<PyBool(TRUE)>>, <<PyNone>> >>

NumberChoices ==
    << <<>>, <<PyInt(-3)>>, <<PyInt(4)>>, <<PyStr(S_x)>>, <<PyFloat(25)>>, <<PyNone>> >>

BodyChoices ==
    << <<>>, <<PyStr(L_empty)>>, <<PyStr(L_blank)>>, <<PyStr(L_A_c1_b)>>, <<PyInt(5)>>,
       <<PyStr(<<CTRL_BYTE>>)>> >>

ContentChoices ==
    << <<>>, <<PyNone>>, <<PyStr(L_empty)>>, <<PyStr(L_blank)>>, <<PyStr(L_c)>>,
       <<PyDict(<< <<S_text, PyStr(<<CTRL_BYTE>>)>> >>)>> >>

ParagraphsChoices ==
    << <<>>, <<PyList(<<PyStr(L_p_q), PyStr(L_r)>>)>>, <<PyStr(L_empty)>> >>

TextChoices == << <<>>, <<PyStr(L_t)>>, <<PyInt(7)>> >>

LegacyChoices == << <<>>, <<PyStr(L_u)>> >>

\* the item of a mapping for one choice
Field(key, choice) == IF Len(choice) = 0 THEN <<>> ELSE << <<key, choice[1]>> >>

\* the raw chapter of the choices c = <<order, number, body, content,
\* paragraphs, text, legacy>>
RawChapter(c) ==
    PyDict(Field(S_order, OrderChoices[c[1]]) \o Field(S_number, NumberChoices[c[2]])
           \o Field(S_body, BodyChoices[c[3]]) \o Field(S_content, ContentChoices[c[4]])
           \o Field(S_paragraphs, ParagraphsChoices[c[5]]) \o Field(S_text, TextChoices[c[6]])
           \o Field(S_audio_url, LegacyChoices[c[7]])
           \o (IF c[7] = 1 THEN <<>> ELSE << <<S_published, PyBool(TRUE)>> >>))

\* every order with every number, and every source of the body with every other
RawChapters ==
    {<<o, n, 1, 1, 1, 1, 1>> : o \in 1..Len(OrderChoices), n \in 1..Len(NumberChoices)}
    \cup {<<1, 1, bd, ct, pg, tx, lg>> :
             bd \in 1..Len(BodyChoices), ct \in 1..Len(ContentChoices),
             pg \in 1..Len(ParagraphsChoices), tx \in 1..Len(TextChoices),
             lg \in 1..Len(LegacyChoices)}

TcInit ==
    /\ EscIdle /\ PreIdle /\ FlatIdle /\ MainIdle /\ DbIdle /\ NbIdle
    /\ \E c \in RawChapters : tc_ch = RawChapter(c)
    /\ tc_ret = Unset
    /\ tc_pc = "call"

\* the call and its return
TcCall ==
    /\ tc_pc = "call"
    /\ tc_ret' = transform_chapter(tc_ch)
    /\ tc_pc' = "returned"
    /\ UNCHANGED <<tc_ch, nbVars, escVars, preVars, flatVars, mainVars, dbVars>>

TcNext == TcCall

SpecChapter == TcInit /\ [][TcNext]_vars

-----------------------------------------------------------------------------
(* Claims about transform_chapter *)

\* C12: the order of the record transform_chapter returns is a non-negative
\* integer, whatever the raw order and number fields hold.
C12_OrderNonNegative ==
    tc_pc = "returned" =>
        /\ HasKey(tc_ret, S_order)
        /\ Item(tc_ret, S_order).t = "int"
        /\ Item(tc_ret, S_order).v >= 0

\* the flattening of field key of the raw chapter, empty when the field is
\* absent
FlatOf(ch, key) ==
    IF HasKey(ch, key) THEN extract_text_from_block(Item(ch, key)).v ELSE <<>>

\* the first non-empty flattening among content, paragraphs and text, the
\* empty string when there is none
FirstFlat(ch) ==
    IF FlatOf(ch, S_content) # <<>> THEN FlatOf(ch, S_content)
    ELSE IF FlatOf(ch, S_paragraphs) # <<>> THEN FlatOf(ch, S_paragraphs)
    ELSE FlatOf(ch, S_text)

\* the returned record has a string body and none of the pruned keys
BodyShape(ret) ==
    /\ HasKey(ret, S_body) /\ IsStr(Item(ret, S_body))
    /\ \A k \in {S_content, S_paragraphs, S_text, S_audio_url, S_published} : ~HasKey(ret, k)

\* C13 as stated: a non-empty string body is kept, control-stripped;
\* otherwise the body is the first non-empty flattening among content,
\* paragraphs and text, or empty; the record has a string body and none of
\* content, paragraphs, text, audio_url, published.
C13_BodyAsStated ==
    tc_pc = "returned" =>
        /\ BodyShape(tc_ret)
        /\ Item(tc_ret, S_body).v =
              IF IsStr(Get(tc_ch, S_body)) /\ Item(tc_ch, S_body).v # <<>>
              THEN SubCtrl(Item(tc_ch, S_body).v)
              ELSE FirstFlat(tc_ch)

\* what lines 101-113 do: a string body that holds a character other than
\* white space is kept, control-stripped; in every other case (absent, not a
\* string, empty or white space only) the body is the first non-empty
\* flattening among content, paragraphs and text, or empty; the record has a
\* string body and none of content, paragraphs, text, audio_url, published.
C13_BodyResolved ==
    tc_pc = "returned" =>
        /\ BodyShape(tc_ret)
        /\ Item(tc_ret, S_body).v =
              IF IsStr(Get(tc_ch, S_body)) /\ ~IsBlankText(Item(tc_ch, S_body).v)
              THEN SubCtrl(Item(tc_ch, S_body).v)
              ELSE FirstFlat(tc_ch)

\* a blank body gives way to the content, and the legacy fields are gone
C13_BlankBodyReplaced ==
    /\ tc_pc = "returned"
    /\ IsStr(Get(tc_ch, S_body)) /\ Item(tc_ch, S_body).v = L_blank
    /\ IsStr(Get(tc_ch, S_content)) /\ Item(tc_ch, S_content).v = L_c
    /\ HasKey(tc_ch, S_audio_url)
    /\ Item(tc_ret, S_body).v = L_c
    /\ ~HasKey(tc_ret, S_audio_url)

\* a body kept while content is present too
C13_BodyKept ==
    /\ tc_pc = "returned"
    /\ IsStr(Get(tc_ch, S_body)) /\ Item(tc_ch, S_body).v = L_A_c1_b
    /\ HasKey(tc_ch, S_content)
    /\ Item(tc_ret, S_body).v = <<65, 98>>

-----------------------------------------------------------------------------
(* normalize_book called on raw book records, fix_manifest.py 117-148 *)

L_1999 == <<49, 57, 57, 57>>  \* "1999"
L_20_c1_20 == <<50, 48, 1, 50, 48>>  \* "20\x0120"

\* what a raw book may hold in each field; the first choice of each is the
\* field left out
PublishedChoices ==
    << <<>>, <<PyStr(L_2020)>>, <<PyStr(L_20_c1_20)>>, <<PyStr(L_empty)>>, <<PyStr(L_blank)>>,
       <<PyNone>>, <<PyInt(2020)>>, <<PyInt(0)>> >>

PublicationChoices ==
    << <<>>, <<PyStr(L_1999)>>, <<PyStr(L_empty)>>, <<PyNone>>, <<PyInt(0)>> >>

TitleChoices == << <<>>, <<PyStr(L_T_c1)>> >>

\* the raw book of the choices c = <<title, published_date, publication_date>>
RawBook(c) ==
    PyDict(Field(S_title, TitleChoices[c[1]])
           \o Field(S_published_date, PublishedChoices[c[2]])
           \o Field(S_publication_date, PublicationChoices[c[3]]))

RawBooks == (1..Len(TitleChoices)) \X (1..Len(PublishedChoices)) \X (1..Len(PublicationChoices))

\* the chapter lists the book is normalized with: none, or one chapter as
\* transform_chapter returns it
BookChapterLists ==
    << <<>>, <<transform_chapter(RawChapter(<<4, 1, 4, 1, 1, 1, 1>>))>> >>

NbInit ==
    /\ EscIdle /\ PreIdle /\ FlatIdle /\ MainIdle /\ DbIdle /\ TcIdle
    /\ \E c \in RawBooks : nb_book = RawBook(c)
    /\ \E k \in 1..Len(BookChapterLists) : nb_chapters = BookChapterLists[k]
    /\ nb_ret = Unset
    /\ nb_pc = "call"

\* the call and its return
NbCall ==
    /\ nb_pc = "call"
    /\ nb_ret' = normalize_book(nb_book, nb_chapters)
    /\ nb_pc' = "returned"
    /\ UNCHANGED <<nb_book, nb_chapters, tcVars, escVars, preVars, flatVars, mainVars, dbVars>>

NbNext == NbCall

SpecBook == NbInit /\ [][NbNext]_vars

-----------------------------------------------------------------------------
(* Claims about normalize_book *)

\* got is the control-stripped value v: the stripped string of a string, and
\* of another value either the value or its text
DateMoved(v, got) ==
    IF IsStr(v) THEN IsStr(got) /\ got.v = SubCtrl(v.v)
    ELSE ValEq(got, v) \/ (IsStr(got) /\ got.v = SubCtrl(StrOf(v)))

\* C11: when published_date is present and publication_date is absent the
\* returned record has publication_date equal to the control-stripped
\* published_date and no published_date key; a publication_date that is
\* present keeps its value.
C11_DateMigrated ==
    nb_pc = "returned" =>
        /\ HasKey(nb_book, S_published_date) /\ ~HasKey(nb_book, S_publication_date) =>
              /\ ~HasKey(nb_ret, S_published_date)
              /\ HasKey(nb_ret, S_publication_date)
              /\ DateMoved(Item(nb_book, S_published_date), Item(nb_ret, S_publication_date))
        /\ HasKey(nb_book, S_publication_date) =>
              /\ HasKey(nb_ret, S_publication_date)
              /\ ValEq(Item(nb_ret, S_publication_date), Item(nb_book, S_publication_date))

\* what lines 130-131 do: the value moves when published_date is truthy and
\* publication_date is absent or falsy; otherwise both keys stay as they were
C11_DateMovedWhenTruthy ==
    nb_pc = "returned" =>
        IF Truthy(Get(nb_book, S_published_date)) /\ ~Truthy(Get(nb_book, S_publication_date))
        THEN /\ ~HasKey(nb_ret, S_published_date)
             /\ HasKey(nb_ret, S_publication_date)
             /\ DateMoved(Item(nb_book, S_published_date), Item(nb_ret, S_publication_date))
        ELSE \A k \in {S_published_date, S_publication_date} :
                /\ HasKey(nb_ret, k) <=> HasKey(nb_book, k)
                /\ HasKey(nb_book, k) => ValEq(Item(nb_ret, k), Item(nb_book, k))

=============================================================================
